---- MODULE Spec2Model ----
(***************************************************************************)
(* Membership reconciliation of aws-security-connectors.                   *)
(*                                                                         *)
(* One AddMember invocation of a reconciler (GuardDuty, Security Hub,      *)
(* Detective) is a sequence of blocking remote calls on a master-side and  *)
(* a member-side client.  Each action below is one remote call together    *)
(* with the code that runs between that call and the next one.  The remote *)
(* services answer every call with any response of the bounded response    *)
(* sets; the clients record every call with its input and its response.    *)
(***************************************************************************)
EXTENDS Integers, Sequences, FiniteSets, TLC

\* Longest list a remote service returns (detectors, graphs, members, invitations).
MaxList == 2

(***************************************************************************)
(* Values                                                                  *)
(***************************************************************************)
\* A nil *string of the AWS SDK shapes.
Nil == "<nil>"

\* A nil error, and the error the remote side returns when a call fails.
NoErr == <<>>
MockErr == <<"mock err">>

\* An error is the chain of its messages, outermost first, root cause last:
\* errors.Wrap(err, msg) and fmt.Errorf(msg + ": %w", err) both put msg in front.
Wrap(err, msg) == <<msg>> \o err

\* The arguments of AddMember, as the orchestrator passes them.
accountID == "112233445566"
accountEmail == "email@example.com"
masterAccountID == "665544332211"
\* Another account that may have sent an invitation.
otherAccountID == "999999999999"

SeqsUpTo(S, n) == UNION {[1..k -> S] : k \in 0..n}

(***************************************************************************)
(* Responses of the remote services                                        *)
(***************************************************************************)
DetectorIdValues == {"detector_a", "detector_b"}
GraphArnValues == {"graph_a", "graph_b"}
StatusValues == {"Enabled", "Associated", "Invited"}
\* An invitation from the master account carries any token, or none; the one
\* from another account carries its own.
InvitationIdValues == {Nil, "invitation_a", "invitation_b"}
GraphArnTokenValues == {Nil, "graph_a", "graph_b"}

ListDetectorsOutputs ==
    {[err |-> MockErr, DetectorIds |-> <<>>]}
    \cup {[err |-> NoErr, DetectorIds |-> s] : s \in SeqsUpTo(DetectorIdValues, MaxList)}

GuardDutyGetMembersOutputs ==
    {[err |-> MockErr, Members |-> <<>>]}
    \cup {[err |-> NoErr, Members |-> s] :
            s \in SeqsUpTo([RelationshipStatus : StatusValues], MaxList)}

AckOutputs == {[err |-> NoErr], [err |-> MockErr]}

GuardDutyListInvitationsOutputs ==
    {[err |-> MockErr, Invitations |-> <<>>]}
    \cup {[err |-> NoErr, Invitations |-> s] :
            s \in SeqsUpTo([AccountId : {masterAccountID}, InvitationId : InvitationIdValues]
                         \cup {[AccountId |-> otherAccountID, InvitationId |-> "invitation_other"]},
                         MaxList)}

SecurityHubGetMembersOutputs ==
    {[err |-> MockErr, Members |-> <<>>]}
    \cup {[err |-> NoErr, Members |-> s] :
            s \in SeqsUpTo([MemberStatus : StatusValues], MaxList)}

SecurityHubListInvitationsOutputs == GuardDutyListInvitationsOutputs

ListGraphsOutputs ==
    {[err |-> MockErr, GraphList |-> <<>>]}
    \cup {[err |-> NoErr, GraphList |-> s] : s \in SeqsUpTo([Arn : GraphArnValues], MaxList)}

DetectiveGetMembersOutputs ==
    {[err |-> MockErr, MemberDetails |-> <<>>]}
    \cup {[err |-> NoErr, MemberDetails |-> s] :
            s \in SeqsUpTo([Status : StatusValues], MaxList)}

DetectiveListInvitationsOutputs ==
    {[err |-> MockErr, Invitations |-> <<>>]}
    \cup {[err |-> NoErr, Invitations |-> s] :
            s \in SeqsUpTo([AccountId : {masterAccountID}, GraphArn : GraphArnTokenValues]
                         \cup {[AccountId |-> otherAccountID, GraphArn |-> "graph_other"]},
                         MaxList)}

(***************************************************************************)
(* State                                                                   *)
(***************************************************************************)
VARIABLES
    svc,     \* the connector under run: "GuardDuty", "SecurityHub", "Detective", "Prisma"
    pc,      \* position inside AddMember or AddAWSAccount: "idle", the next remote call, or "done"
    local,   \* the arguments and local variables of the current invocation
    calls,   \* the remote calls of the current invocation, in order
    err,     \* the error the invocation returned (NoErr is nil), meaningful at "done"
    prev,    \* how the previous invocation of the connector ended
    \* The state of main:
    opts,        \* the parsed options
    mpc,         \* position inside main
    result,      \* the aggregated errors (a nil result is the empty sequence)
    mainMasterAccountID,  \* main's local masterAccountID ("" until resolved)
    todo,        \* the regions the loop has not visited yet
    region,      \* the region of the current iteration
    invoked,     \* the connector and STS invocations main made, in order
    exitCode     \* the exit code of the process, Nil while it runs

connectorVars == <<svc, pc, local, calls, err, prev>>
mainVars == <<opts, mpc, result, mainMasterAccountID, todo, region, invoked, exitCode>>
vars == <<connectorVars, mainVars>>

InitLocal ==
    [detectorID |-> Nil, graphARN |-> Nil, connected |-> FALSE,
     invitationID |-> Nil, graphArn |-> Nil, detector |-> Nil]

NoPrev == [outcome |-> "none", created |-> FALSE]

\* A recorded remote call.
Call(client, op, in, out) == [client |-> client, op |-> op, in |-> in, out |-> out]

\* The nil input pointer of the listing calls.
NilInput == [isNil |-> TRUE]

\* The positions of the recorded calls of operation op.
CallsOf(op) == {i \in 1..Len(calls) : calls[i].op = op}

\* main before it has started.
NoOpts ==
    [APIKey |-> "", APIPassword |-> "", GuardDuty |-> FALSE, SecurityHub |-> FALSE,
     Detective |-> FALSE, RegionExceptions |-> {}]

MainNotStarted ==
    /\ opts = NoOpts
    /\ mpc = "Parse"
    /\ result = <<>>
    /\ mainMasterAccountID = ""
    /\ todo = {}
    /\ region = Nil
    /\ invoked = <<>>
    /\ exitCode = Nil

Init ==
    /\ svc = "none"
    /\ pc = "idle"
    /\ local = InitLocal
    /\ calls = <<>>
    /\ err = NoErr
    /\ prev = NoPrev
    /\ MainNotStarted

\* A new AddMember invocation of service s may start: none is in progress,
\* and successive invocations are of the same service with the same arguments.
CanStart(s) ==
    /\ pc = "idle"
    /\ svc \in {"none", s}

\* Entering AddMember: fresh locals, fresh call record.
Enter(s) ==
    /\ svc' = s
    /\ prev' = prev
    /\ UNCHANGED mainVars

\* AddMember returns e.
Return(e) ==
    /\ err' = e
    /\ pc' = "done"

\* AddMember goes on to its next remote call.
Goto(next) ==
    /\ err' = NoErr
    /\ pc' = next

(***************************************************************************)
(* GuardDuty                                                               *)
(***************************************************************************)
\* Faulty getDetectorID: only an empty listing is refused, so the first of
\* several detectors is returned.
getDetectorID_FirstOfMany(out) ==
    IF out.err # NoErr
    THEN [val |-> Nil, err |-> Wrap(out.err, "error listing detectors")]
    ELSE IF Len(out.DetectorIds) = 0
    THEN [val |-> Nil,
          err |-> <<ToString(Len(out.DetectorIds)) \o " detectors found instead of one">>]
    ELSE [val |-> out.DetectorIds[1], err |-> NoErr]

\* getDetectorID applied to the response of ListDetectors.
getDetectorID(out) ==
    IF out.err # NoErr
    THEN [val |-> Nil, err |-> Wrap(out.err, "error listing detectors")]
    ELSE IF Len(out.DetectorIds) # 1
    THEN [val |-> Nil,
          err |-> <<ToString(Len(out.DetectorIds)) \o " detectors found instead of one">>]
    ELSE [val |-> out.DetectorIds[1], err |-> NoErr]

\* Faulty ifGuardDutyMemberAlreadyEnabled: compares with the terminal status of
\* Security Hub.
ifGuardDutyMemberAlreadyEnabled_Associated(out) ==
    IF out.err # NoErr
    THEN [val |-> FALSE, err |-> Wrap(out.err, "error getting existing members")]
    ELSE IF Len(out.Members) = 1 /\ out.Members[1].RelationshipStatus = "Associated"
    THEN [val |-> TRUE, err |-> NoErr]
    ELSE [val |-> FALSE, err |-> NoErr]

\* ifGuardDutyMemberAlreadyEnabled applied to the response of GetMembers.
ifGuardDutyMemberAlreadyEnabled(out) ==
    IF out.err # NoErr
    THEN [val |-> FALSE, err |-> Wrap(out.err, "error getting existing members")]
    ELSE IF Len(out.Members) = 1 /\ out.Members[1].RelationshipStatus = "Enabled"
    THEN [val |-> TRUE, err |-> NoErr]
    ELSE [val |-> FALSE, err |-> NoErr]

\* The invitation scan of acceptGuardDutyMemberInvitation: the InvitationId of
\* the first invitation from masterID, from position i on; Nil when none is left.
RECURSIVE guardDutyInvitationID(_, _, _)
guardDutyInvitationID(invitations, masterID, i) ==
    IF i > Len(invitations) THEN Nil
    ELSE IF invitations[i].AccountId = masterID THEN invitations[i].InvitationId
    ELSE guardDutyInvitationID(invitations, masterID, i + 1)

\* AddMember, up to and including the master-side getDetectorID.
GuardDuty_AddMember ==
    /\ CanStart("GuardDuty")
    /\ Enter("GuardDuty")
    /\ \E out \in ListDetectorsOutputs :
        LET r == getDetectorID(out) IN
        /\ calls' = <<Call("master", "ListDetectors", NilInput, out)>>
        /\ IF r.err # NoErr
           THEN /\ Return(Wrap(r.err, "can't get detectorID of master account"))
                /\ local' = InitLocal
           ELSE /\ Goto("GuardDuty_GetMembers")
                /\ local' = [InitLocal EXCEPT !.detectorID = r.val]

\* Faulty AddMember: a membership record that is present, whatever its status,
\* skips the enrollment.
GuardDuty_GetMembers_SkipsEnrollment ==
    /\ pc = "GuardDuty_GetMembers"
    /\ \E out \in GuardDutyGetMembersOutputs :
        LET r == ifGuardDutyMemberAlreadyEnabled(out) IN
        /\ calls' = Append(calls, Call("master", "GetMembers",
                        [DetectorId |-> local.detectorID, AccountIds |-> <<accountID>>], out))
        /\ local' = [local EXCEPT !.connected = r.val]
        /\ IF r.err # NoErr
           THEN Return(Wrap(r.err, "error retrieving information about existing member account"))
           ELSE IF r.val THEN Return(NoErr)
           ELSE IF Len(out.Members) = 1 THEN Goto("GuardDuty_ListInvitations")
           ELSE Goto("GuardDuty_CreateMembers")
    /\ UNCHANGED <<svc, prev, mainVars>>

\* AddMember: ifGuardDutyMemberAlreadyEnabled and the decision on its result.
GuardDuty_GetMembers ==
    /\ pc = "GuardDuty_GetMembers"
    /\ \E out \in GuardDutyGetMembersOutputs :
        LET r == ifGuardDutyMemberAlreadyEnabled(out) IN
        /\ calls' = Append(calls, Call("master", "GetMembers",
                        [DetectorId |-> local.detectorID, AccountIds |-> <<accountID>>], out))
        /\ local' = [local EXCEPT !.connected = r.val]
        /\ IF r.err # NoErr
           THEN Return(Wrap(r.err, "error retrieving information about existing member account"))
           ELSE IF r.val THEN Return(NoErr)
           ELSE Goto("GuardDuty_CreateMembers")
    /\ UNCHANGED <<svc, prev, mainVars>>

\* Faulty setUpGuardDutyMaster: returns after CreateMembers, sending no invitation.
GuardDuty_CreateMembers_SkipsInvite ==
    /\ pc = "GuardDuty_CreateMembers"
    /\ \E out \in AckOutputs :
        /\ calls' = Append(calls, Call("master", "CreateMembers",
                        [DetectorId |-> local.detectorID,
                         AccountDetails |-> <<[AccountId |-> accountID, Email |-> accountEmail]>>],
                        out))
        /\ IF out.err # NoErr
           THEN Return(Wrap(Wrap(out.err, "error creating member account"),
                            "error setting up master account"))
           ELSE Goto("GuardDuty_ListInvitations")
    /\ UNCHANGED <<svc, local, prev, mainVars>>

\* setUpGuardDutyMaster: CreateMembers.
GuardDuty_CreateMembers ==
    /\ pc = "GuardDuty_CreateMembers"
    /\ \E out \in AckOutputs :
        /\ calls' = Append(calls, Call("master", "CreateMembers",
                        [DetectorId |-> local.detectorID,
                         AccountDetails |-> <<[AccountId |-> accountID, Email |-> accountEmail]>>],
                        out))
        /\ IF out.err # NoErr
           THEN Return(Wrap(Wrap(out.err, "error creating member account"),
                            "error setting up master account"))
           ELSE Goto("GuardDuty_InviteMembers")
    /\ UNCHANGED <<svc, local, prev, mainVars>>

\* Faulty setUpGuardDutyMaster: the invitation leaves email notification on.
GuardDuty_InviteMembers_Notifies ==
    /\ pc = "GuardDuty_InviteMembers"
    /\ \E out \in AckOutputs :
        /\ calls' = Append(calls, Call("master", "InviteMembers",
                        [DetectorId |-> local.detectorID,
                         AccountIds |-> <<accountID>>,
                         DisableEmailNotification |-> FALSE],
                        out))
        /\ IF out.err # NoErr
           THEN Return(Wrap(Wrap(out.err, "error sending invitation"),
                            "error setting up master account"))
           ELSE Goto("GuardDuty_ListInvitations")
    /\ UNCHANGED <<svc, local, prev, mainVars>>

\* Faulty setUpGuardDutyMaster: the error of InviteMembers is dropped and the
\* member side is entered all the same.
GuardDuty_InviteMembers_IgnoresError ==
    /\ pc = "GuardDuty_InviteMembers"
    /\ \E out \in AckOutputs :
        /\ calls' = Append(calls, Call("master", "InviteMembers",
                        [DetectorId |-> local.detectorID,
                         AccountIds |-> <<accountID>>,
                         DisableEmailNotification |-> TRUE],
                        out))
        /\ Goto("GuardDuty_ListInvitations")
    /\ UNCHANGED <<svc, local, prev, mainVars>>

\* setUpGuardDutyMaster: InviteMembers, then back in AddMember.
GuardDuty_InviteMembers ==
    /\ pc = "GuardDuty_InviteMembers"
    /\ \E out \in AckOutputs :
        /\ calls' = Append(calls, Call("master", "InviteMembers",
                        [DetectorId |-> local.detectorID,
                         AccountIds |-> <<accountID>>,
                         DisableEmailNotification |-> TRUE],
                        out))
        /\ IF out.err # NoErr
           THEN Return(Wrap(Wrap(out.err, "error sending invitation"),
                            "error setting up master account"))
           ELSE Goto("GuardDuty_ListInvitations")
    /\ UNCHANGED <<svc, local, prev, mainVars>>

\* Faulty acceptGuardDutyMemberInvitation: the result of the invitation scan is
\* not tested before the member-side detector lookup.
GuardDuty_ListInvitations_NoNilCheck ==
    /\ pc = "GuardDuty_ListInvitations"
    /\ \E out \in GuardDutyListInvitationsOutputs :
        LET invitationID == guardDutyInvitationID(out.Invitations, masterAccountID, 1) IN
        /\ calls' = Append(calls, Call("member", "ListInvitations", NilInput, out))
        /\ IF out.err # NoErr
           THEN /\ Return(Wrap(Wrap(out.err, "error retrieving list of invitations"),
                               "error accepting invitation in member account"))
                /\ local' = local
           ELSE /\ Goto("GuardDuty_ListDetectors")
                /\ local' = [local EXCEPT !.invitationID = invitationID]
    /\ UNCHANGED <<svc, prev, mainVars>>

\* acceptGuardDutyMemberInvitation: ListInvitations and the invitation scan.
GuardDuty_ListInvitations ==
    /\ pc = "GuardDuty_ListInvitations"
    /\ \E out \in GuardDutyListInvitationsOutputs :
        LET invitationID == guardDutyInvitationID(out.Invitations, masterAccountID, 1) IN
        /\ calls' = Append(calls, Call("member", "ListInvitations", NilInput, out))
        /\ IF out.err # NoErr
           THEN /\ Return(Wrap(Wrap(out.err, "error retrieving list of invitations"),
                               "error accepting invitation in member account"))
                /\ local' = local
           ELSE IF invitationID = Nil
           THEN /\ Return(Wrap(<<"can't find invitation from master account">>,
                               "error accepting invitation in member account"))
                /\ local' = local
           ELSE /\ Goto("GuardDuty_ListDetectors")
                /\ local' = [local EXCEPT !.invitationID = invitationID]
    /\ UNCHANGED <<svc, prev, mainVars>>

\* acceptGuardDutyMemberInvitation: the member-side getDetectorID.
GuardDuty_ListDetectors ==
    /\ pc = "GuardDuty_ListDetectors"
    /\ \E out \in ListDetectorsOutputs :
        LET r == getDetectorID(out) IN
        /\ calls' = Append(calls, Call("member", "ListDetectors", NilInput, out))
        /\ IF r.err # NoErr
           THEN /\ Return(Wrap(Wrap(r.err, "can't get detectorID to accept invitation"),
                               "error accepting invitation in member account"))
                /\ local' = local
           ELSE /\ Goto("GuardDuty_AcceptInvitation")
                /\ local' = [local EXCEPT !.detector = r.val]
    /\ UNCHANGED <<svc, prev, mainVars>>

\* Faulty acceptGuardDutyMemberInvitation: accepts with the detector of the
\* master account.
GuardDuty_AcceptInvitation_MasterDetector ==
    /\ pc = "GuardDuty_AcceptInvitation"
    /\ \E out \in AckOutputs :
        /\ calls' = Append(calls, Call("member", "AcceptInvitation",
                        [DetectorId |-> local.detectorID,
                         InvitationId |-> local.invitationID,
                         MasterId |-> masterAccountID],
                        out))
        /\ IF out.err # NoErr
           THEN Return(Wrap(Wrap(out.err, "error accepting invitation"),
                            "error accepting invitation in member account"))
           ELSE Return(NoErr)
    /\ UNCHANGED <<svc, local, prev, mainVars>>

\* acceptGuardDutyMemberInvitation: AcceptInvitation, then AddMember returns.
GuardDuty_AcceptInvitation ==
    /\ pc = "GuardDuty_AcceptInvitation"
    /\ \E out \in AckOutputs :
        /\ calls' = Append(calls, Call("member", "AcceptInvitation",
                        [DetectorId |-> local.detector,
                         InvitationId |-> local.invitationID,
                         MasterId |-> masterAccountID],
                        out))
        /\ IF out.err # NoErr
           THEN Return(Wrap(Wrap(out.err, "error accepting invitation"),
                            "error accepting invitation in member account"))
           ELSE Return(NoErr)
    /\ UNCHANGED <<svc, local, prev, mainVars>>

(***************************************************************************)
(* Security Hub                                                            *)
(***************************************************************************)
\* Faulty ifSecurityHubMemberAlreadyAssociated: looks at the first record
\* whatever the number of records.
ifSecurityHubMemberAlreadyAssociated_AnyCount(out) ==
    IF out.err # NoErr
    THEN [val |-> FALSE, err |-> Wrap(out.err, "error getting existing members")]
    ELSE IF Len(out.Members) >= 1 /\ out.Members[1].MemberStatus = "Associated"
    THEN [val |-> TRUE, err |-> NoErr]
    ELSE [val |-> FALSE, err |-> NoErr]

\* ifSecurityHubMemberAlreadyAssociated applied to the response of GetMembers.
ifSecurityHubMemberAlreadyAssociated(out) ==
    IF out.err # NoErr
    THEN [val |-> FALSE, err |-> Wrap(out.err, "error getting existing members")]
    ELSE IF Len(out.Members) = 1 /\ out.Members[1].MemberStatus = "Associated"
    THEN [val |-> TRUE, err |-> NoErr]
    ELSE [val |-> FALSE, err |-> NoErr]

\* The invitation scan of acceptSecurityHubMemberInvitation.
\* Faulty invitation scan: an invitation from masterID without InvitationId
\* does not end the scan.
RECURSIVE securityHubInvitationID_FirstWithToken(_, _, _)
securityHubInvitationID_FirstWithToken(invitations, masterID, i) ==
    IF i > Len(invitations) THEN Nil
    ELSE IF invitations[i].AccountId = masterID /\ invitations[i].InvitationId # Nil
    THEN invitations[i].InvitationId
    ELSE securityHubInvitationID_FirstWithToken(invitations, masterID, i + 1)

RECURSIVE securityHubInvitationID(_, _, _)
securityHubInvitationID(invitations, masterID, i) ==
    IF i > Len(invitations) THEN Nil
    ELSE IF invitations[i].AccountId = masterID THEN invitations[i].InvitationId
    ELSE securityHubInvitationID(invitations, masterID, i + 1)

\* Faulty AddMember: a run that follows one in which the member was created
\* resumes after the creation, at InviteMembers.
SecurityHub_AddMember_ResumesAfterCreate ==
    /\ CanStart("SecurityHub")
    /\ Enter("SecurityHub")
    /\ IF prev.created
       THEN \E out \in AckOutputs :
            /\ calls' = <<Call("master", "InviteMembers", [AccountIds |-> <<accountID>>], out)>>
            /\ local' = InitLocal
            /\ IF out.err # NoErr
               THEN Return(Wrap(Wrap(out.err, "error sending invitation"),
                                "error setting up master account"))
               ELSE Goto("SecurityHub_ListInvitations")
       ELSE \E out \in SecurityHubGetMembersOutputs :
            LET r == ifSecurityHubMemberAlreadyAssociated(out) IN
            /\ calls' = <<Call("master", "GetMembers", [AccountIds |-> <<accountID>>], out)>>
            /\ local' = [InitLocal EXCEPT !.connected = r.val]
            /\ IF r.err # NoErr
               THEN Return(Wrap(r.err, "error retrieving information about existing member account"))
               ELSE IF r.val THEN Return(NoErr)
               ELSE Goto("SecurityHub_CreateMembers")

\* Faulty AddMember: the error of the membership query is dropped and the
\* member is enrolled.
SecurityHub_AddMember_SwallowsQueryError ==
    /\ CanStart("SecurityHub")
    /\ Enter("SecurityHub")
    /\ \E out \in SecurityHubGetMembersOutputs :
        LET r == ifSecurityHubMemberAlreadyAssociated(out) IN
        /\ calls' = <<Call("master", "GetMembers", [AccountIds |-> <<accountID>>], out)>>
        /\ local' = [InitLocal EXCEPT !.connected = r.val]
        /\ IF r.val THEN Return(NoErr)
           ELSE Goto("SecurityHub_CreateMembers")

\* AddMember, up to and including ifSecurityHubMemberAlreadyAssociated and the
\* decision on its result.
SecurityHub_AddMember ==
    /\ CanStart("SecurityHub")
    /\ Enter("SecurityHub")
    /\ \E out \in SecurityHubGetMembersOutputs :
        LET r == ifSecurityHubMemberAlreadyAssociated(out) IN
        /\ calls' = <<Call("master", "GetMembers", [AccountIds |-> <<accountID>>], out)>>
        /\ local' = [InitLocal EXCEPT !.connected = r.val]
        /\ IF r.err # NoErr
           THEN Return(Wrap(r.err, "error retrieving information about existing member account"))
           ELSE IF r.val THEN Return(NoErr)
           ELSE Goto("SecurityHub_CreateMembers")

\* Faulty setUpSecurityHubMaster: the invitation is sent although CreateMembers failed.
SecurityHub_CreateMembers_IgnoresError ==
    /\ pc = "SecurityHub_CreateMembers"
    /\ \E out \in AckOutputs :
        /\ calls' = Append(calls, Call("master", "CreateMembers",
                        [AccountDetails |-> <<[AccountId |-> accountID, Email |-> accountEmail]>>],
                        out))
        /\ Goto("SecurityHub_InviteMembers")
    /\ UNCHANGED <<svc, local, prev, mainVars>>

\* setUpSecurityHubMaster: CreateMembers.
SecurityHub_CreateMembers ==
    /\ pc = "SecurityHub_CreateMembers"
    /\ \E out \in AckOutputs :
        /\ calls' = Append(calls, Call("master", "CreateMembers",
                        [AccountDetails |-> <<[AccountId |-> accountID, Email |-> accountEmail]>>],
                        out))
        /\ IF out.err # NoErr
           THEN Return(Wrap(Wrap(out.err, "error creating member account"),
                            "error setting up master account"))
           ELSE Goto("SecurityHub_InviteMembers")
    /\ UNCHANGED <<svc, local, prev, mainVars>>

\* Faulty setUpSecurityHubMaster: a failed InviteMembers is attempted a second time.
SecurityHub_InviteMembers_RetriesOnce ==
    /\ pc = "SecurityHub_InviteMembers"
    /\ \E out \in AckOutputs :
        /\ calls' = Append(calls, Call("master", "InviteMembers",
                        [AccountIds |-> <<accountID>>], out))
        /\ IF out.err # NoErr /\ CallsOf("InviteMembers") = {}
           THEN Goto("SecurityHub_InviteMembers")
           ELSE IF out.err # NoErr
           THEN Return(Wrap(Wrap(out.err, "error sending invitation"),
                            "error setting up master account"))
           ELSE Goto("SecurityHub_ListInvitations")
    /\ UNCHANGED <<svc, local, prev, mainVars>>

\* setUpSecurityHubMaster: InviteMembers, then back in AddMember.
SecurityHub_InviteMembers ==
    /\ pc = "SecurityHub_InviteMembers"
    /\ \E out \in AckOutputs :
        /\ calls' = Append(calls, Call("master", "InviteMembers",
                        [AccountIds |-> <<accountID>>], out))
        /\ IF out.err # NoErr
           THEN Return(Wrap(Wrap(out.err, "error sending invitation"),
                            "error setting up master account"))
           ELSE Goto("SecurityHub_ListInvitations")
    /\ UNCHANGED <<svc, local, prev, mainVars>>

\* acceptSecurityHubMemberInvitation: ListInvitations and the invitation scan.
SecurityHub_ListInvitations ==
    /\ pc = "SecurityHub_ListInvitations"
    /\ \E out \in SecurityHubListInvitationsOutputs :
        LET invitationID == securityHubInvitationID(out.Invitations, masterAccountID, 1) IN
        /\ calls' = Append(calls, Call("member", "ListInvitations", NilInput, out))
        /\ IF out.err # NoErr
           THEN /\ Return(Wrap(Wrap(out.err, "error retrieving list of invitations"),
                               "error accepting invitation in member account"))
                /\ local' = local
           ELSE IF invitationID = Nil
           THEN /\ Return(Wrap(<<"can't find invitation from master account">>,
                               "error accepting invitation in member account"))
                /\ local' = local
           ELSE /\ Goto("SecurityHub_AcceptInvitation")
                /\ local' = [local EXCEPT !.invitationID = invitationID]
    /\ UNCHANGED <<svc, prev, mainVars>>

\* Faulty acceptSecurityHubMemberInvitation: a detector of the member account is
\* passed along, as GuardDuty needs it.
SecurityHub_AcceptInvitation_WithDetector ==
    /\ pc = "SecurityHub_AcceptInvitation"
    /\ \E out \in AckOutputs :
        /\ calls' = Append(calls, Call("member", "AcceptInvitation",
                        [DetectorId |-> local.detector,
                         InvitationId |-> local.invitationID, MasterId |-> masterAccountID],
                        out))
        /\ IF out.err # NoErr
           THEN Return(Wrap(Wrap(out.err, "error accepting invitation"),
                            "error accepting invitation in member account"))
           ELSE Return(NoErr)
    /\ UNCHANGED <<svc, local, prev, mainVars>>

\* acceptSecurityHubMemberInvitation: AcceptInvitation, then AddMember returns.
SecurityHub_AcceptInvitation ==
    /\ pc = "SecurityHub_AcceptInvitation"
    /\ \E out \in AckOutputs :
        /\ calls' = Append(calls, Call("member", "AcceptInvitation",
                        [InvitationId |-> local.invitationID, MasterId |-> masterAccountID],
                        out))
        /\ IF out.err # NoErr
           THEN Return(Wrap(Wrap(out.err, "error accepting invitation"),
                            "error accepting invitation in member account"))
           ELSE Return(NoErr)
    /\ UNCHANGED <<svc, local, prev, mainVars>>

(***************************************************************************)
(* Detective                                                               *)
(***************************************************************************)
\* getGraphARN applied to the response of ListGraphs.
getGraphARN(out) ==
    IF out.err # NoErr
    THEN [val |-> Nil, err |-> Wrap(out.err, "error listing graphs")]
    ELSE IF Len(out.GraphList) # 1
    THEN [val |-> Nil,
          err |-> <<ToString(Len(out.GraphList)) \o " graphs found instead of one">>]
    ELSE [val |-> out.GraphList[1].Arn, err |-> NoErr]

\* Faulty ifDetectiveMemberAlreadyEnabled: compares with "Associated", the
\* status its doc comment names.
ifDetectiveMemberAlreadyEnabled_Associated(out) ==
    IF out.err # NoErr
    THEN [val |-> FALSE, err |-> Wrap(out.err, "error getting existing members")]
    ELSE IF Len(out.MemberDetails) = 1 /\ out.MemberDetails[1].Status = "Associated"
    THEN [val |-> TRUE, err |-> NoErr]
    ELSE [val |-> FALSE, err |-> NoErr]

\* Faulty ifDetectiveMemberAlreadyEnabled: looks at every record instead of
\* requiring exactly one, and reports the member connected when all are "Enabled".
ifDetectiveMemberAlreadyEnabled_AllEnabled(out) ==
    IF out.err # NoErr
    THEN [val |-> FALSE, err |-> Wrap(out.err, "error getting existing members")]
    ELSE IF /\ Len(out.MemberDetails) >= 1
            /\ \A j \in DOMAIN out.MemberDetails : out.MemberDetails[j].Status = "Enabled"
    THEN [val |-> TRUE, err |-> NoErr]
    ELSE [val |-> FALSE, err |-> NoErr]

\* ifDetectiveMemberAlreadyEnabled applied to the response of GetMembers.
ifDetectiveMemberAlreadyEnabled(out) ==
    IF out.err # NoErr
    THEN [val |-> FALSE, err |-> Wrap(out.err, "error getting existing members")]
    ELSE IF Len(out.MemberDetails) = 1 /\ out.MemberDetails[1].Status = "Enabled"
    THEN [val |-> TRUE, err |-> NoErr]
    ELSE [val |-> FALSE, err |-> NoErr]

\* Faulty invitation scan, without the break: the last invitation from
\* masterID wins.
RECURSIVE detectiveGraphArn_LastMatch(_, _, _)
detectiveGraphArn_LastMatch(invitations, masterID, i) ==
    IF i > Len(invitations) THEN Nil
    ELSE LET later == detectiveGraphArn_LastMatch(invitations, masterID, i + 1) IN
         IF later # Nil THEN later
         ELSE IF invitations[i].AccountId = masterID THEN invitations[i].GraphArn
         ELSE Nil

\* The invitation scan of acceptDetectiveMemberInvitation: the GraphArn of the
\* first invitation from masterID, from position i on; Nil when none is left.
RECURSIVE detectiveGraphArn(_, _, _)
detectiveGraphArn(invitations, masterID, i) ==
    IF i > Len(invitations) THEN Nil
    ELSE IF invitations[i].AccountId = masterID THEN invitations[i].GraphArn
    ELSE detectiveGraphArn(invitations, masterID, i + 1)

\* Faulty AddMember: goes on to the membership query whatever getGraphARN returned.
Detective_AddMember_IgnoresLookupError ==
    /\ CanStart("Detective")
    /\ Enter("Detective")
    /\ \E out \in ListGraphsOutputs :
        LET r == getGraphARN(out) IN
        /\ calls' = <<Call("master", "ListGraphs", NilInput, out)>>
        /\ Goto("Detective_GetMembers")
        /\ local' = [InitLocal EXCEPT !.graphARN = r.val]

\* AddMember, up to and including getGraphARN.
Detective_AddMember ==
    /\ CanStart("Detective")
    /\ Enter("Detective")
    /\ \E out \in ListGraphsOutputs :
        LET r == getGraphARN(out) IN
        /\ calls' = <<Call("master", "ListGraphs", NilInput, out)>>
        /\ IF r.err # NoErr
           THEN /\ Return(Wrap(r.err, "can't get graphARN of master account"))
                /\ local' = InitLocal
           ELSE /\ Goto("Detective_GetMembers")
                /\ local' = [InitLocal EXCEPT !.graphARN = r.val]

\* AddMember: ifDetectiveMemberAlreadyEnabled and the decision on its result.
Detective_GetMembers ==
    /\ pc = "Detective_GetMembers"
    /\ \E out \in DetectiveGetMembersOutputs :
        LET r == ifDetectiveMemberAlreadyEnabled(out) IN
        /\ calls' = Append(calls, Call("master", "GetMembers",
                        [AccountIds |-> <<accountID>>, GraphArn |-> local.graphARN], out))
        /\ local' = [local EXCEPT !.connected = r.val]
        /\ IF r.err # NoErr
           THEN Return(Wrap(r.err, "error retrieving information about existing member account"))
           ELSE IF r.val THEN Return(NoErr)
           ELSE Goto("Detective_CreateMembers")
    /\ UNCHANGED <<svc, prev, mainVars>>

\* Faulty setUpDetectiveMaster: the error of CreateMembers is dropped.
Detective_CreateMembers_IgnoresError ==
    /\ pc = "Detective_CreateMembers"
    /\ \E out \in AckOutputs :
        /\ calls' = Append(calls, Call("master", "CreateMembers",
                        [Accounts |-> <<[AccountId |-> accountID, EmailAddress |-> accountEmail]>>,
                         GraphArn |-> local.graphARN],
                        out))
        /\ Goto("Detective_ListInvitations")
    /\ UNCHANGED <<svc, local, prev, mainVars>>

\* setUpDetectiveMaster: CreateMembers, then back in AddMember.
Detective_CreateMembers ==
    /\ pc = "Detective_CreateMembers"
    /\ \E out \in AckOutputs :
        /\ calls' = Append(calls, Call("master", "CreateMembers",
                        [Accounts |-> <<[AccountId |-> accountID, EmailAddress |-> accountEmail]>>,
                         GraphArn |-> local.graphARN],
                        out))
        /\ IF out.err # NoErr
           THEN Return(Wrap(Wrap(out.err, "error creating member account"),
                            "error setting up master account"))
           ELSE Goto("Detective_ListInvitations")
    /\ UNCHANGED <<svc, local, prev, mainVars>>

\* acceptDetectiveMemberInvitation: ListInvitations and the invitation scan.
Detective_ListInvitations ==
    /\ pc = "Detective_ListInvitations"
    /\ \E out \in DetectiveListInvitationsOutputs :
        LET graphArn == detectiveGraphArn(out.Invitations, masterAccountID, 1) IN
        /\ calls' = Append(calls, Call("member", "ListInvitations", NilInput, out))
        /\ IF out.err # NoErr
           THEN /\ Return(Wrap(Wrap(out.err, "error retrieving list of invitations"),
                               "error accepting invitation in member account"))
                /\ local' = local
           ELSE IF graphArn = Nil
           THEN /\ Return(Wrap(<<"can't find invitation from master account">>,
                               "error accepting invitation in member account"))
                /\ local' = local
           ELSE /\ Goto("Detective_AcceptInvitation")
                /\ local' = [local EXCEPT !.graphArn = graphArn]
    /\ UNCHANGED <<svc, prev, mainVars>>

\* Faulty acceptDetectiveMemberInvitation: a failed AcceptInvitation is issued
\* again until it succeeds.
Detective_AcceptInvitation_UntilAccepted ==
    /\ pc = "Detective_AcceptInvitation"
    /\ \E out \in AckOutputs :
        /\ calls' = Append(calls, Call("member", "AcceptInvitation",
                        [GraphArn |-> local.graphArn], out))
        /\ IF out.err # NoErr
           THEN Goto("Detective_AcceptInvitation")
           ELSE Return(NoErr)
    /\ UNCHANGED <<svc, local, prev, mainVars>>

\* acceptDetectiveMemberInvitation: AcceptInvitation, then AddMember returns.
Detective_AcceptInvitation ==
    /\ pc = "Detective_AcceptInvitation"
    /\ \E out \in AckOutputs :
        /\ calls' = Append(calls, Call("member", "AcceptInvitation",
                        [GraphArn |-> local.graphArn], out))
        /\ IF out.err # NoErr
           THEN Return(Wrap(Wrap(out.err, "error accepting invitation"),
                            "error accepting invitation in member account"))
           ELSE Return(NoErr)
    /\ UNCHANGED <<svc, local, prev, mainVars>>

(***************************************************************************)
(* Prisma                                                                  *)
(***************************************************************************)
\* The arguments of AddAWSAccount besides accountID: the name may be empty, and
\* may be the account ID itself.
AccountNameValues == {"", "account_name", accountID}
externalID == "test_external_id"
roleName == "test_role_name"

buildRoleARN(id, role) == "arn:aws:iam::" \o id \o ":role/" \o role

\* A response body: a text that is not JSON, or the JSON text of a value.  A
\* JSON object is the sequence of its <<key, value>> members in the order of
\* the text, a JSON array the sequence of its elements.
NotJSON == [text |-> "not_json"]
EmptyBody == [text |-> ""]
JSON(v) == [json |-> v]
\* Whether json.Unmarshal can decode the body.
IsJSON(body) == "json" \in DOMAIN body
\* What json.Unmarshal says of NotJSON, and of an empty input.
UnmarshalErr == <<"invalid character 'o' in literal null (expecting 'u')">>
EmptyInputErr == <<"unexpected end of JSON input">>
UnmarshalError(body) == IF body.text = "" THEN EmptyInputErr ELSE UnmarshalErr

\* The JSON keys of awsAccountInfo with the zero value of each field, and the
\* same for prismaCloudAccount.
ZeroAccountInfo ==
    [name |-> "", enabled |-> FALSE, externalId |-> "", roleArn |-> "", accountId |-> ""]
ZeroCloudAccount == [accountId |-> ""]

\* A JSON key is the sequence of its characters.  The tags of the fields of
\* awsAccountInfo (the tag of prismaCloudAccount's one field is accountId too):
TagOf ==
    [name |-> <<"n", "a", "m", "e">>,
     enabled |-> <<"e", "n", "a", "b", "l", "e", "d">>,
     externalId |-> <<"e", "x", "t", "e", "r", "n", "a", "l", "I", "d">>,
     roleArn |-> <<"r", "o", "l", "e", "A", "r", "n">>,
     accountId |-> <<"a", "c", "c", "o", "u", "n", "t", "I", "d">>]

\* The lower-case letter of each upper-case letter.
LowerOf ==
    [A |-> "a", B |-> "b", C |-> "c", D |-> "d", E |-> "e", F |-> "f", G |-> "g",
     H |-> "h", I |-> "i", J |-> "j", K |-> "k", L |-> "l", M |-> "m", N |-> "n",
     O |-> "o", P |-> "p", Q |-> "q", R |-> "r", S |-> "s", T |-> "t", U |-> "u",
     V |-> "v", W |-> "w", X |-> "x", Y |-> "y", Z |-> "z"]

\* A key with every upper-case letter replaced by its lower-case letter.
UpperCase == DOMAIN LowerOf
Fold(k) == [j \in DOMAIN k |-> IF k[j] \in UpperCase THEN LowerOf[k[j]] ELSE k[j]]

\* The tags under case folding.
FoldedTagOf == [f \in DOMAIN TagOf |-> Fold(TagOf[f])]

\* The field a JSON key is decoded into: json.Unmarshal matches a key with the
\* tag of a field whatever the case of its letters; Nil when it matches none.
FieldOfKey(k) ==
    LET folded == Fold(k)
        fields == {f \in DOMAIN FoldedTagOf : FoldedTagOf[f] = folded}
    IN IF fields = {} THEN Nil ELSE CHOOSE f \in fields : TRUE

\* json.Unmarshal of an object into a struct whose fields hold acc, from member
\* i on: each member whose key matches a field sets it, a later member
\* overrides an earlier one, a member that matches no field is skipped.
RECURSIVE DecodeObject(_, _, _)
DecodeObject(acc, members, i) ==
    IF i > Len(members) THEN acc
    ELSE LET f == FieldOfKey(members[i][1]) IN
         DecodeObject(IF f \in DOMAIN acc THEN [acc EXCEPT ![f] = members[i][2]] ELSE acc,
                      members, i + 1)

\* json.Marshal of an awsAccountInfo: the five fields under their tags, in the
\* order of the struct.
Marshal(acc) ==
    << <<TagOf.name, acc.name>>, <<TagOf.enabled, acc.enabled>>,
       <<TagOf.externalId, acc.externalId>>, <<TagOf.roleArn, acc.roleArn>>,
       <<TagOf.accountId, acc.accountId>> >>

\* The values of the JSON bodies: a list of objects for GET /cloud, an object
\* for GET /cloud/aws/{id}.  An object may lack keys, and may spell a key in
\* another case than the tag ("accountID", "RoleArn").
AccountListBodies ==
    SeqsUpTo({<< <<TagOf.accountId, id>> >> : id \in {accountID, otherAccountID}}
                \cup {<< <<<<"a", "c", "c", "o", "u", "n", "t", "I", "D">>, accountID>> >>},
             MaxList)

AccountInfoBodies ==
    {Marshal(r) : r \in
        [name : {"", "account_name", "old_name", accountID},
         enabled : BOOLEAN,
         externalId : {externalID, "other_external_id"},
         roleArn : {buildRoleARN(accountID, roleName), buildRoleARN(accountID, "other_role_name")},
         accountId : {accountID, otherAccountID}]}
        \cup {<< <<TagOf.accountId, accountID>> >>,
              << <<TagOf.accountId, accountID>>, <<TagOf.enabled, TRUE>>,
                 <<TagOf.externalId, externalID>>,
                 <<<<"R", "o", "l", "e", "A", "r", "n">>, buildRoleARN(accountID, roleName)>> >>}

GetCloudOutputs ==
    {[err |-> MockErr, body |-> EmptyBody]}
        \cup {[err |-> NoErr, body |-> b] :
                b \in {NotJSON, EmptyBody} \cup {JSON(v) : v \in AccountListBodies}}

GetAccountInfoOutputs ==
    {[err |-> MockErr, body |-> EmptyBody]}
        \cup {[err |-> NoErr, body |-> b] :
                b \in {NotJSON, EmptyBody} \cup {JSON(v) : v \in AccountInfoBodies}}

\* The responses of PUT and POST; their bodies are not read.
WriteOutputs == {[err |-> e, body |-> EmptyBody] : e \in {NoErr, MockErr}}

\* json.Unmarshal into awsAccountInfo: the members whose key matches a field
\* are taken, the other fields keep their zero value.
UnmarshalAccountInfo(body) ==
    IF ~IsJSON(body)
    THEN [val |-> ZeroAccountInfo, err |-> UnmarshalError(body)]
    ELSE [val |-> DecodeObject(ZeroAccountInfo, body.json, 1), err |-> NoErr]

\* json.Unmarshal into []prismaCloudAccount.
UnmarshalAccounts(body) ==
    IF ~IsJSON(body)
    THEN [val |-> <<>>, err |-> UnmarshalError(body)]
    ELSE [val |-> [j \in DOMAIN body.json |-> DecodeObject(ZeroCloudAccount, body.json[j], 1)],
          err |-> NoErr]

\* Faulty ifAWSAccountExists: only the first listed account is compared.
ifAWSAccountExists_FirstOnly(out, id) ==
    IF out.err # NoErr
    THEN [val |-> FALSE, err |-> Wrap(out.err, "error retrieving list of accounts")]
    ELSE LET accounts == UnmarshalAccounts(out.body) IN
         IF accounts.err # NoErr
         THEN [val |-> FALSE, err |-> Wrap(accounts.err, "error unmarshalling accounts information")]
         ELSE [val |-> Len(accounts.val) > 0 /\ accounts.val[1].accountId = id,
               err |-> NoErr]

\* ifAWSAccountExists applied to the response of GET /cloud.
ifAWSAccountExists(out, id) ==
    IF out.err # NoErr
    THEN [val |-> FALSE, err |-> Wrap(out.err, "error retrieving list of accounts")]
    ELSE LET accounts == UnmarshalAccounts(out.body) IN
         IF accounts.err # NoErr
         THEN [val |-> FALSE, err |-> Wrap(accounts.err, "error unmarshalling accounts information")]
         ELSE [val |-> \E j \in DOMAIN accounts.val : accounts.val[j].accountId = id,
               err |-> NoErr]

\* Faulty AddAWSAccount: the error of ifAWSAccountExists is dropped, so a
\* listing that failed counts as "account absent".
Prisma_AddAWSAccount_IgnoresListingError ==
    /\ CanStart("Prisma")
    /\ Enter("Prisma")
    /\ \E name \in AccountNameValues, out \in GetCloudOutputs :
        LET r == ifAWSAccountExists(out, accountID) IN
        /\ calls' = <<Call("api", "GET", [url |-> "/cloud", body |-> Nil], out)>>
        /\ local' = [name |-> name,
                     exists |-> r.val,
                     newAcc |-> [name |-> name, enabled |-> TRUE, externalId |-> externalID,
                                 roleArn |-> buildRoleARN(accountID, roleName),
                                 accountId |-> accountID]]
        /\ IF r.val THEN Goto("Prisma_updateExistingAWSAccount")
           ELSE Goto("Prisma_createNewAWSAccount")

\* Faulty AddAWSAccount: the desired record is built with the zero value of
\* Enabled.
Prisma_AddAWSAccount_Disabled ==
    /\ CanStart("Prisma")
    /\ Enter("Prisma")
    /\ \E name \in AccountNameValues, out \in GetCloudOutputs :
        LET r == ifAWSAccountExists(out, accountID) IN
        /\ calls' = <<Call("api", "GET", [url |-> "/cloud", body |-> Nil], out)>>
        /\ local' = [name |-> name,
                     exists |-> r.val,
                     newAcc |-> [name |-> name, enabled |-> FALSE, externalId |-> externalID,
                                 roleArn |-> buildRoleARN(accountID, roleName),
                                 accountId |-> accountID]]
        /\ IF r.err # NoErr
           THEN Return(Wrap(r.err, "error checking for existing account"))
           ELSE IF r.val THEN Goto("Prisma_updateExistingAWSAccount")
           ELSE Goto("Prisma_createNewAWSAccount")

\* AddAWSAccount, up to the decision between update and create.
Prisma_AddAWSAccount ==
    /\ CanStart("Prisma")
    /\ Enter("Prisma")
    /\ \E name \in AccountNameValues, out \in GetCloudOutputs :
        LET r == ifAWSAccountExists(out, accountID) IN
        /\ calls' = <<Call("api", "GET", [url |-> "/cloud", body |-> Nil], out)>>
        /\ local' = [name |-> name,
                     exists |-> r.val,
                     newAcc |-> [name |-> name, enabled |-> TRUE, externalId |-> externalID,
                                 roleArn |-> buildRoleARN(accountID, roleName),
                                 accountId |-> accountID]]
        /\ IF r.err # NoErr
           THEN Return(Wrap(r.err, "error checking for existing account"))
           ELSE IF r.val THEN Goto("Prisma_updateExistingAWSAccount")
           ELSE Goto("Prisma_createNewAWSAccount")

\* Faulty updateExistingAWSAccount: the comparison leaves the enabled flag out.
Prisma_updateExistingAWSAccount_IgnoresEnabled ==
    /\ pc = "Prisma_updateExistingAWSAccount"
    /\ \E out \in GetAccountInfoOutputs :
        LET oldAcc == UnmarshalAccountInfo(out.body)
            acc == IF local.newAcc.name = ""
                   THEN [local.newAcc EXCEPT !.name = oldAcc.val.name]
                   ELSE local.newAcc
        IN
        /\ calls' = Append(calls, Call("api", "GET",
                        [url |-> "/cloud/aws/" \o local.newAcc.accountId, body |-> Nil], out))
        /\ IF out.err # NoErr
           THEN /\ Return(Wrap(Wrap(out.err, "error retrieving existing account details"),
                               "error updating existing account"))
                /\ UNCHANGED local
           ELSE IF oldAcc.err # NoErr
           THEN /\ Return(Wrap(Wrap(oldAcc.err, "error unmarshalling account details"),
                               "error updating existing account"))
                /\ UNCHANGED local
           ELSE /\ local' = [local EXCEPT !.newAcc = acc]
                /\ IF [oldAcc.val EXCEPT !.enabled = TRUE] # acc THEN Goto("Prisma_PUT") ELSE Return(NoErr)
    /\ UNCHANGED <<svc, prev, mainVars>>

\* Faulty updateExistingAWSAccount: the decoding error is dropped and the zero
\* record is compared.
Prisma_updateExistingAWSAccount_IgnoresDecodeError ==
    /\ pc = "Prisma_updateExistingAWSAccount"
    /\ \E out \in GetAccountInfoOutputs :
        LET oldAcc == UnmarshalAccountInfo(out.body)
            acc == IF local.newAcc.name = ""
                   THEN [local.newAcc EXCEPT !.name = oldAcc.val.name]
                   ELSE local.newAcc
        IN
        /\ calls' = Append(calls, Call("api", "GET",
                        [url |-> "/cloud/aws/" \o local.newAcc.accountId, body |-> Nil], out))
        /\ IF out.err # NoErr
           THEN /\ Return(Wrap(Wrap(out.err, "error retrieving existing account details"),
                               "error updating existing account"))
                /\ UNCHANGED local
           ELSE IF FALSE
           THEN /\ Return(Wrap(Wrap(oldAcc.err, "error unmarshalling account details"),
                               "error updating existing account"))
                /\ UNCHANGED local
           ELSE /\ local' = [local EXCEPT !.newAcc = acc]
                /\ IF oldAcc.val # acc THEN Goto("Prisma_PUT") ELSE Return(NoErr)
    /\ UNCHANGED <<svc, prev, mainVars>>

\* Faulty updateExistingAWSAccount: the merged record is sent without being
\* compared with the existing one.
Prisma_updateExistingAWSAccount_AlwaysPuts ==
    /\ pc = "Prisma_updateExistingAWSAccount"
    /\ \E out \in GetAccountInfoOutputs :
        LET oldAcc == UnmarshalAccountInfo(out.body)
            acc == IF local.newAcc.name = ""
                   THEN [local.newAcc EXCEPT !.name = oldAcc.val.name]
                   ELSE local.newAcc
        IN
        /\ calls' = Append(calls, Call("api", "GET",
                        [url |-> "/cloud/aws/" \o local.newAcc.accountId, body |-> Nil], out))
        /\ IF out.err # NoErr
           THEN /\ Return(Wrap(Wrap(out.err, "error retrieving existing account details"),
                               "error updating existing account"))
                /\ UNCHANGED local
           ELSE IF oldAcc.err # NoErr
           THEN /\ Return(Wrap(Wrap(oldAcc.err, "error unmarshalling account details"),
                               "error updating existing account"))
                /\ UNCHANGED local
           ELSE /\ local' = [local EXCEPT !.newAcc = acc]
                /\ Goto("Prisma_PUT")
    /\ UNCHANGED <<svc, prev, mainVars>>

\* updateExistingAWSAccount, up to the comparison of the two records.
Prisma_updateExistingAWSAccount ==
    /\ pc = "Prisma_updateExistingAWSAccount"
    /\ \E out \in GetAccountInfoOutputs :
        LET oldAcc == UnmarshalAccountInfo(out.body)
            acc == IF local.newAcc.name = ""
                   THEN [local.newAcc EXCEPT !.name = oldAcc.val.name]
                   ELSE local.newAcc
        IN
        /\ calls' = Append(calls, Call("api", "GET",
                        [url |-> "/cloud/aws/" \o local.newAcc.accountId, body |-> Nil], out))
        /\ IF out.err # NoErr
           THEN /\ Return(Wrap(Wrap(out.err, "error retrieving existing account details"),
                               "error updating existing account"))
                /\ UNCHANGED local
           ELSE IF oldAcc.err # NoErr
           THEN /\ Return(Wrap(Wrap(oldAcc.err, "error unmarshalling account details"),
                               "error updating existing account"))
                /\ UNCHANGED local
           ELSE /\ local' = [local EXCEPT !.newAcc = acc]
                /\ IF oldAcc.val # acc THEN Goto("Prisma_PUT") ELSE Return(NoErr)
    /\ UNCHANGED <<svc, prev, mainVars>>

\* Faulty update: the error of the PUT is dropped.
Prisma_PUT_SwallowsError ==
    /\ pc = "Prisma_PUT"
    /\ \E out \in WriteOutputs :
        /\ calls' = Append(calls, Call("api", "PUT",
                        [url |-> "/cloud/aws/" \o local.newAcc.accountId, body |-> JSON(Marshal(local.newAcc))],
                        out))
        /\ Return(NoErr)
    /\ UNCHANGED <<svc, local, prev, mainVars>>

\* updateExistingAWSAccount: the PUT of the merged record, then AddAWSAccount returns.
Prisma_PUT ==
    /\ pc = "Prisma_PUT"
    /\ \E out \in WriteOutputs :
        /\ calls' = Append(calls, Call("api", "PUT",
                        [url |-> "/cloud/aws/" \o local.newAcc.accountId, body |-> JSON(Marshal(local.newAcc))],
                        out))
        /\ IF out.err # NoErr
           THEN Return(Wrap(Wrap(out.err, "error sending API request"),
                            "error updating existing account"))
           ELSE Return(NoErr)
    /\ UNCHANGED <<svc, local, prev, mainVars>>

\* Faulty createNewAWSAccount: an empty name is sent as it is.
Prisma_createNewAWSAccount_KeepsEmptyName ==
    /\ pc = "Prisma_createNewAWSAccount"
    /\ \E out \in WriteOutputs :
        /\ calls' = Append(calls, Call("api", "POST",
                        [url |-> "/cloud/aws/", body |-> JSON(Marshal(local.newAcc))], out))
        /\ IF out.err # NoErr
           THEN Return(Wrap(Wrap(out.err, "error sending API request"),
                            "error creating new account"))
           ELSE Return(NoErr)
    /\ UNCHANGED <<svc, local, prev, mainVars>>

\* Faulty AddAWSAccount: a failed create is reported as a failed update.
Prisma_createNewAWSAccount_WrongStage ==
    /\ pc = "Prisma_createNewAWSAccount"
    /\ LET acc == IF local.newAcc.name = ""
                  THEN [local.newAcc EXCEPT !.name = local.newAcc.accountId]
                  ELSE local.newAcc
       IN
       /\ local' = [local EXCEPT !.newAcc = acc]
       /\ \E out \in WriteOutputs :
            /\ calls' = Append(calls, Call("api", "POST",
                            [url |-> "/cloud/aws/", body |-> JSON(Marshal(acc))], out))
            /\ IF out.err # NoErr
               THEN Return(Wrap(Wrap(out.err, "error sending API request"),
                                "error updating existing account"))
               ELSE Return(NoErr)
    /\ UNCHANGED <<svc, prev, mainVars>>

\* createNewAWSAccount: the POST of the new record, then AddAWSAccount returns.
Prisma_createNewAWSAccount ==
    /\ pc = "Prisma_createNewAWSAccount"
    /\ LET acc == IF local.newAcc.name = ""
                  THEN [local.newAcc EXCEPT !.name = local.newAcc.accountId]
                  ELSE local.newAcc
       IN
       /\ local' = [local EXCEPT !.newAcc = acc]
       /\ \E out \in WriteOutputs :
            /\ calls' = Append(calls, Call("api", "POST",
                            [url |-> "/cloud/aws/", body |-> JSON(Marshal(acc))], out))
            /\ IF out.err # NoErr
               THEN Return(Wrap(Wrap(out.err, "error sending API request"),
                                "error creating new account"))
               ELSE Return(NoErr)
    /\ UNCHANGED <<svc, prev, mainVars>>

\* How the invocation that is at "done" ended, and whether its CreateMembers
\* call had succeeded.  For a successful AddAWSAccount also the name it was
\* given and the record the CSPM holds afterwards: the body of the write when
\* one was sent, else the record the CSPM returned, as the JSON text the CSPM
\* answers a later fetch with.
Outcome ==
    IF svc = "Prisma"
    THEN [outcome |-> IF err # NoErr THEN "failed" ELSE "synchronized",
          created |-> \E i \in CallsOf("POST") : calls[i].out.err = NoErr,
          name |-> IF err # NoErr THEN "" ELSE local.name,
          stored |-> IF err # NoErr THEN EmptyBody
                     ELSE IF calls[Len(calls)].op = "GET"
                     THEN calls[Len(calls)].out.body
                     ELSE calls[Len(calls)].in.body]
    ELSE [outcome |-> IF err # NoErr THEN "failed"
                      ELSE IF local.connected THEN "connected" ELSE "accepted",
          created |-> \E i \in CallsOf("CreateMembers") : calls[i].out.err = NoErr]

\* The program has ended with the result of AddMember; the next run of the
\* program builds a new inviter and keeps nothing but what the remote services
\* hold.  The model remembers how the run ended.
NextRun ==
    /\ pc = "done"
    /\ pc' = "idle"
    /\ prev' = Outcome
    /\ calls' = <<>>
    /\ local' = InitLocal
    /\ err' = NoErr
    /\ UNCHANGED <<svc, mainVars>>

(***************************************************************************)
(* Specification                                                           *)
(***************************************************************************)
Next ==
    \/ NextRun
    \/ GuardDuty_AddMember
    \/ GuardDuty_GetMembers
    \/ GuardDuty_CreateMembers
    \/ GuardDuty_InviteMembers
    \/ GuardDuty_ListInvitations
    \/ GuardDuty_ListDetectors
    \/ GuardDuty_AcceptInvitation
    \/ SecurityHub_AddMember
    \/ SecurityHub_CreateMembers
    \/ SecurityHub_InviteMembers
    \/ SecurityHub_ListInvitations
    \/ SecurityHub_AcceptInvitation
    \/ Detective_AddMember
    \/ Detective_GetMembers
    \/ Detective_CreateMembers
    \/ Detective_ListInvitations
    \/ Detective_AcceptInvitation
    \/ Prisma_AddAWSAccount
    \/ Prisma_updateExistingAWSAccount
    \/ Prisma_PUT
    \/ Prisma_createNewAWSAccount

Spec == Init /\ [][Next]_vars

(***************************************************************************)
(* main                                                                    *)
(***************************************************************************)
\* The regions of the AWS partition the loop of main ranges over.
MaxRegions == 2
Regions == {"region_" \o ToString(i) : i \in 1..MaxRegions}

\* The options main reads, as flags.Parse leaves them.
OptsValues ==
    [APIKey : {"", "api_key"}, APIPassword : {"", "api_password"},
     GuardDuty : BOOLEAN, SecurityHub : BOOLEAN, Detective : BOOLEAN,
     RegionExceptions : SUBSET Regions]

\* Faulty contains: no region is found in the list.
contains_Never(s, e) == FALSE

contains(s, e) == e \in s

\* The responses of sts.GetCallerIdentity.
GetCallerIdentityOutputs ==
    {[err |-> MockErr, Account |-> Nil]}
        \cup {[err |-> NoErr, Account |-> a] : a \in {masterAccountID, otherAccountID}}

\* GetAccountID applied to the response of GetCallerIdentity.
GetAccountID(out) ==
    IF out.err # NoErr
    THEN [val |-> "", err |-> Wrap(out.err, "problem retrieving account id")]
    ELSE [val |-> out.Account, err |-> NoErr]

\* What AddAWSAccount and AddMember return to main: nil, or an error.
AddAWSAccountResults ==
    {NoErr, <<"error checking for existing account", "error retrieving list of accounts", "mock err">>}
AddMemberResults ==
    {NoErr, <<"error setting up master account", "error creating member account", "mock err">>}

\* Faulty aggregation: the new error replaces what was collected.
MultierrorAppend_KeepsLast(res, e) == <<e>>

\* multierror.Append(result, e)
MultierrorAppend(res, e) == Append(res, e)

\* An invocation main made: of AddAWSAccount, GetAccountID or AddMember.
Invocation(unit, r, id, e) == [unit |-> unit, region |-> r, masterAccountID |-> id, err |-> e]

\* flags.Parse: on failure the process exits with code 1.
main_Parse ==
    /\ mpc = "Parse"
    /\ \/ /\ mpc' = "exited"
          /\ exitCode' = 1
          /\ UNCHANGED opts
       \/ /\ \E o \in OptsValues : opts' = o
          /\ mpc' = "Prisma"
          /\ UNCHANGED exitCode
    /\ UNCHANGED <<result, mainMasterAccountID, todo, region, invoked, connectorVars>>

\* Faulty Prisma block: a failed AddAWSAccount ends the run.
main_Prisma_AbortsOnError ==
    /\ mpc = "Prisma"
    /\ IF opts.APIKey # "" /\ opts.APIPassword # ""
       THEN \E e \in AddAWSAccountResults :
            /\ invoked' = Append(invoked, Invocation("Prisma", Nil, Nil, e))
            /\ result' = IF e # NoErr
                         THEN MultierrorAppend(result, Wrap(e, "problem adding account to Prisma"))
                         ELSE result
            /\ IF e = NoErr /\ (opts.GuardDuty \/ opts.SecurityHub \/ opts.Detective)
               THEN mpc' = "Region" /\ todo' = Regions
               ELSE mpc' = "Exit" /\ todo' = todo
       ELSE /\ UNCHANGED <<invoked, result>>
            /\ IF opts.GuardDuty \/ opts.SecurityHub \/ opts.Detective
               THEN mpc' = "Region" /\ todo' = Regions
               ELSE mpc' = "Exit" /\ todo' = todo
    /\ UNCHANGED <<opts, mainMasterAccountID, region, exitCode, connectorVars>>

\* Faulty Prisma block: the API key alone decides.
main_Prisma_KeyOnly ==
    /\ mpc = "Prisma"
    /\ IF opts.APIKey # ""
       THEN \E e \in AddAWSAccountResults :
            /\ invoked' = Append(invoked, Invocation("Prisma", Nil, Nil, e))
            /\ result' = IF e # NoErr
                         THEN MultierrorAppend(result, Wrap(e, "problem adding account to Prisma"))
                         ELSE result
       ELSE UNCHANGED <<invoked, result>>
    /\ IF opts.GuardDuty \/ opts.SecurityHub \/ opts.Detective
       THEN mpc' = "Region" /\ todo' = Regions
       ELSE mpc' = "Exit" /\ todo' = todo
    /\ UNCHANGED <<opts, mainMasterAccountID, region, exitCode, connectorVars>>

\* The Prisma block, and the entry into the region loop when a service is enabled.
main_Prisma ==
    /\ mpc = "Prisma"
    /\ IF opts.APIKey # "" /\ opts.APIPassword # ""
       THEN \E e \in AddAWSAccountResults :
            /\ invoked' = Append(invoked, Invocation("Prisma", Nil, Nil, e))
            /\ result' = IF e # NoErr
                         THEN MultierrorAppend(result, Wrap(e, "problem adding account to Prisma"))
                         ELSE result
       ELSE UNCHANGED <<invoked, result>>
    /\ IF opts.GuardDuty \/ opts.SecurityHub \/ opts.Detective
       THEN mpc' = "Region" /\ todo' = Regions
       ELSE mpc' = "Exit" /\ todo' = todo
    /\ UNCHANGED <<opts, mainMasterAccountID, region, exitCode, connectorVars>>

\* Faulty loop: a failed resolution of the master account ID skips the region
\* and the loop goes on.
main_Region_ContinuesAfterFailure ==
    /\ mpc = "Region"
    /\ IF todo = {}
       THEN /\ mpc' = "Exit"
            /\ UNCHANGED <<todo, region, mainMasterAccountID, invoked, result>>
       ELSE \E r \in todo :
            /\ todo' = todo \ {r}
            /\ IF contains(opts.RegionExceptions, r)
               THEN UNCHANGED <<mpc, region, mainMasterAccountID, invoked, result>>
               ELSE /\ region' = r
                    /\ IF mainMasterAccountID = ""
                       THEN \E out \in GetCallerIdentityOutputs :
                            LET id == GetAccountID(out) IN
                            /\ mainMasterAccountID' = id.val
                            /\ invoked' = Append(invoked, Invocation("GetAccountID", r, id.val, id.err))
                            /\ IF id.err # NoErr
                               THEN /\ result' = MultierrorAppend(result, Wrap(id.err,
                                        "problem retrieving master account ID, aborting AWS services adding"))
                                    /\ mpc' = "Region"
                               ELSE /\ result' = result
                                    /\ mpc' = "GuardDuty"
                       ELSE /\ mpc' = "GuardDuty"
                            /\ UNCHANGED <<mainMasterAccountID, invoked, result>>
    /\ UNCHANGED <<opts, exitCode, connectorVars>>

\* Faulty loop: the master account ID is resolved in every region.
main_Region_ResolvesInEveryRegion ==
    /\ mpc = "Region"
    /\ IF todo = {}
       THEN /\ mpc' = "Exit"
            /\ UNCHANGED <<todo, region, mainMasterAccountID, invoked, result>>
       ELSE \E r \in todo :
            /\ todo' = todo \ {r}
            /\ IF contains(opts.RegionExceptions, r)
               THEN UNCHANGED <<mpc, region, mainMasterAccountID, invoked, result>>
               ELSE /\ region' = r
                    /\ IF TRUE
                       THEN \E out \in GetCallerIdentityOutputs :
                            LET id == GetAccountID(out) IN
                            /\ mainMasterAccountID' = id.val
                            /\ invoked' = Append(invoked, Invocation("GetAccountID", r, id.val, id.err))
                            /\ IF id.err # NoErr
                               THEN /\ result' = MultierrorAppend(result, Wrap(id.err,
                                        "problem retrieving master account ID, aborting AWS services adding"))
                                    /\ mpc' = "Exit"
                               ELSE /\ result' = result
                                    /\ mpc' = "GuardDuty"
                       ELSE /\ mpc' = "GuardDuty"
                            /\ UNCHANGED <<mainMasterAccountID, invoked, result>>
    /\ UNCHANGED <<opts, exitCode, connectorVars>>

\* One step of the region loop: the next region in the order of the map
\* iteration, the exception test, and the resolution of the master account ID
\* while it is still empty.
main_Region ==
    /\ mpc = "Region"
    /\ IF todo = {}
       THEN /\ mpc' = "Exit"
            /\ UNCHANGED <<todo, region, mainMasterAccountID, invoked, result>>
       ELSE \E r \in todo :
            /\ todo' = todo \ {r}
            /\ IF contains(opts.RegionExceptions, r)
               THEN UNCHANGED <<mpc, region, mainMasterAccountID, invoked, result>>
               ELSE /\ region' = r
                    /\ IF mainMasterAccountID = ""
                       THEN \E out \in GetCallerIdentityOutputs :
                            LET id == GetAccountID(out) IN
                            /\ mainMasterAccountID' = id.val
                            /\ invoked' = Append(invoked, Invocation("GetAccountID", r, id.val, id.err))
                            /\ IF id.err # NoErr
                               THEN /\ result' = MultierrorAppend(result, Wrap(id.err,
                                        "problem retrieving master account ID, aborting AWS services adding"))
                                    /\ mpc' = "Exit"
                               ELSE /\ result' = result
                                    /\ mpc' = "GuardDuty"
                       ELSE /\ mpc' = "GuardDuty"
                            /\ UNCHANGED <<mainMasterAccountID, invoked, result>>
    /\ UNCHANGED <<opts, exitCode, connectorVars>>

\* An "if opts.AWS.<service>" block of the loop body: AddMember when the
\* service is enabled, its error appended to result.
AddMemberBlock(s, name, next) ==
    /\ IF opts[s]
       THEN \E e \in AddMemberResults :
            /\ invoked' = Append(invoked, Invocation(s, region, mainMasterAccountID, e))
            /\ result' = IF e # NoErr
                         THEN MultierrorAppend(result, Wrap(e,
                                "problem adding member account to AWS " \o name \o " in " \o region))
                         ELSE result
       ELSE UNCHANGED <<invoked, result>>
    /\ mpc' = next
    /\ UNCHANGED <<opts, mainMasterAccountID, todo, region, exitCode, connectorVars>>

\* Faulty GuardDuty block: a failed AddMember leaves the loop.
main_GuardDuty_StopsOnError ==
    /\ mpc = "GuardDuty"
    /\ IF opts.GuardDuty
       THEN \E e \in AddMemberResults :
            /\ invoked' = Append(invoked, Invocation("GuardDuty", region, mainMasterAccountID, e))
            /\ result' = IF e # NoErr
                         THEN MultierrorAppend(result, Wrap(e,
                                "problem adding member account to AWS GuardDuty in " \o region))
                         ELSE result
            /\ mpc' = IF e # NoErr THEN "Exit" ELSE "SecurityHub"
       ELSE /\ UNCHANGED <<invoked, result>>
            /\ mpc' = "SecurityHub"
    /\ UNCHANGED <<opts, mainMasterAccountID, todo, region, exitCode, connectorVars>>

main_GuardDuty ==
    /\ mpc = "GuardDuty"
    /\ AddMemberBlock("GuardDuty", "GuardDuty", "SecurityHub")

main_SecurityHub ==
    /\ mpc = "SecurityHub"
    /\ AddMemberBlock("SecurityHub", "Security Hub", "Detective")

main_Detective ==
    /\ mpc = "Detective"
    /\ AddMemberBlock("Detective", "Detective", "Region")

\* Faulty end of main: the aggregated errors do not reach the exit code.
main_Exit_IgnoresResult ==
    /\ mpc = "Exit"
    /\ mpc' = "exited"
    /\ exitCode' = 0
    /\ UNCHANGED <<opts, result, mainMasterAccountID, todo, region, invoked, connectorVars>>

\* The end of main: exit code 3 when errors were aggregated.
main_Exit ==
    /\ mpc = "Exit"
    /\ mpc' = "exited"
    /\ exitCode' = IF result # <<>> THEN 3 ELSE 0
    /\ UNCHANGED <<opts, result, mainMasterAccountID, todo, region, invoked, connectorVars>>

NextMain ==
    \/ main_Parse
    \/ main_Prisma
    \/ main_Region
    \/ main_GuardDuty
    \/ main_SecurityHub
    \/ main_Detective
    \/ main_Exit

SpecMain == Init /\ [][NextMain]_vars

(***************************************************************************)
(* Vocabulary of the properties                                            *)
(***************************************************************************)
\* The status that means "connected" in each service.
TerminalStatus == IF svc = "SecurityHub" THEN "Associated" ELSE "Enabled"

\* The statuses of the membership records of a GetMembers response.
MemberStatuses(out) ==
    IF svc = "GuardDuty" THEN [j \in DOMAIN out.Members |-> out.Members[j].RelationshipStatus]
    ELSE IF svc = "SecurityHub" THEN [j \in DOMAIN out.Members |-> out.Members[j].MemberStatus]
    ELSE [j \in DOMAIN out.MemberDetails |-> out.MemberDetails[j].Status]

\* The membership query answered: exactly one record, with the terminal status.
ReportsTerminal(out) ==
    /\ out.err = NoErr
    /\ Len(MemberStatuses(out)) = 1
    /\ MemberStatuses(out)[1] = TerminalStatus

\* The identifiers of a resource listing (detectors or graphs).
ListedResources(c) ==
    IF c.op = "ListGraphs" THEN [j \in DOMAIN c.out.GraphList |-> c.out.GraphList[j].Arn]
    ELSE c.out.DetectorIds

ListingOps == {"ListDetectors", "ListGraphs"}
EnrollAcceptOps == {"CreateMembers", "InviteMembers", "ListInvitations", "AcceptInvitation"}

\* The operations of the recorded calls, with the client each was issued on.
Observed == [i \in DOMAIN calls |-> <<calls[i].client, calls[i].op>>]

\* The token an invitation carries, and the token an AcceptInvitation input carries.
InvitationToken(inv) == IF svc = "Detective" THEN inv.GraphArn ELSE inv.InvitationId
AcceptedToken(in) == IF svc = "Detective" THEN in.GraphArn ELSE in.InvitationId

\* The positions of the invitations sent by the master account.
Matching(invitations) ==
    {j \in DOMAIN invitations : invitations[j].AccountId = masterAccountID}

\* The first of them in list order.
FirstMatching(invitations) ==
    CHOOSE j \in Matching(invitations) : \A k \in Matching(invitations) : j <= k

(***************************************************************************)
(* C1                                                                      *)
(***************************************************************************)
\* C1: in each reconciler, when GetMembers returns exactly one record with the
\* terminal status, AddMember returns nil and GetMembers is its last call: no
\* CreateMembers, InviteMembers, ListInvitations, member-side ListDetectors or
\* AcceptInvitation is issued.
C1_TerminalIsNoOp ==
    \A i \in CallsOf("GetMembers") :
        ReportsTerminal(calls[i].out) =>
            /\ pc = "done"
            /\ err = NoErr
            /\ Len(calls) = i
            /\ \A k \in DOMAIN calls :
                calls[k].op \notin EnrollAcceptOps /\ calls[k].client = "master"

\* A reconciler has returned after a probe that found the member connected.
C1_Witness ==
    /\ pc = "done"
    /\ svc = "Detective"
    /\ \E i \in CallsOf("GetMembers") : ReportsTerminal(calls[i].out)

(***************************************************************************)
(* C2                                                                      *)
(***************************************************************************)
\* The calls of a complete enrollment and acceptance, in order.
FullSequence ==
    IF svc = "GuardDuty"
    THEN << <<"master", "ListDetectors">>, <<"master", "GetMembers">>,
            <<"master", "CreateMembers">>, <<"master", "InviteMembers">>,
            <<"member", "ListInvitations">>, <<"member", "ListDetectors">>,
            <<"member", "AcceptInvitation">> >>
    ELSE IF svc = "SecurityHub"
    THEN << <<"master", "GetMembers">>, <<"master", "CreateMembers">>,
            <<"master", "InviteMembers">>, <<"member", "ListInvitations">>,
            <<"member", "AcceptInvitation">> >>
    ELSE << <<"master", "ListGraphs">>, <<"master", "GetMembers">>,
            <<"master", "CreateMembers">>, <<"member", "ListInvitations">>,
            <<"member", "AcceptInvitation">> >>

\* The probe was made and did not find the member connected.
ProbeNotTerminal ==
    \E i \in CallsOf("GetMembers") :
        calls[i].out.err = NoErr /\ ~ReportsTerminal(calls[i].out)

EveryCallSucceeded == \A i \in DOMAIN calls : calls[i].out.err = NoErr

\* The invitations were listed and one of them is from the master account.
MatchingInvitationPresent ==
    \E i \in CallsOf("ListInvitations") : Matching(calls[i].out.Invitations) # {}

\* Every resource listing made returned exactly one resource.
EveryListingSingle ==
    \A i \in DOMAIN calls :
        calls[i].op \in ListingOps => Len(ListedResources(calls[i])) = 1

\* The first invitation from the master account carries a token.
FirstMatchingHasToken ==
    \A i \in CallsOf("ListInvitations") :
        Matching(calls[i].out.Invitations) # {} =>
            InvitationToken(calls[i].out.Invitations[FirstMatching(calls[i].out.Invitations)]) # Nil

\* C2 as stated: when the probe is not terminal, every remote call succeeds and
\* a matching invitation is present, AddMember returns nil after exactly the
\* full sequence of calls.
C2_AsStated ==
    (pc = "done" /\ ProbeNotTerminal /\ EveryCallSucceeded /\ MatchingInvitationPresent)
        => (err = NoErr /\ Observed = FullSequence)

\* C2, amended: when the probe is not terminal, every remote call succeeds,
\* every resource listing returns exactly one resource and the first invitation
\* from the master account carries a token, AddMember returns nil and the calls
\* observed are exactly the full sequence, each once, in order.
C2_FullSequenceOnSuccess ==
    (pc = "done" /\ ProbeNotTerminal /\ EveryCallSucceeded /\ MatchingInvitationPresent
        /\ EveryListingSingle /\ FirstMatchingHasToken)
        => (err = NoErr /\ Observed = FullSequence)

\* GuardDuty has enrolled and accepted: all seven calls were made and succeeded.
C2_Witness ==
    /\ pc = "done"
    /\ svc = "GuardDuty"
    /\ ProbeNotTerminal /\ EveryCallSucceeded /\ MatchingInvitationPresent
    /\ EveryListingSingle /\ FirstMatchingHasToken
    /\ Len(calls) = 7
    /\ err = NoErr

(***************************************************************************)
(* C3                                                                      *)
(***************************************************************************)
\* C3: when the previous AddMember run with the same arguments succeeded through
\* acceptance and the membership query of this run reports the member with the
\* terminal status, this run returns nil and issues no CreateMembers,
\* InviteMembers or AcceptInvitation.
C3_SecondRunIsNoOp ==
    (pc = "done" /\ prev.outcome = "accepted"
        /\ \E i \in CallsOf("GetMembers") : ReportsTerminal(calls[i].out))
        => /\ err = NoErr
           /\ \A k \in DOMAIN calls :
                calls[k].op \notin {"CreateMembers", "InviteMembers", "AcceptInvitation"}

\* The second run has returned after the first one accepted the invitation.
C3_Witness ==
    /\ pc = "done"
    /\ prev.outcome = "accepted"
    /\ prev.created
    /\ \E i \in CallsOf("GetMembers") : ReportsTerminal(calls[i].out)
    /\ err = NoErr

(***************************************************************************)
(* C4                                                                      *)
(***************************************************************************)
\* What a resource count error says: the observed count, then the resource type.
CountMessage(c) ==
    ToString(Len(ListedResources(c)))
        \o (IF c.op = "ListGraphs" THEN " graphs found instead of one"
            ELSE " detectors found instead of one")

\* The local variable that receives the identifier a listing call resolves.
Resolved(c) ==
    IF c.op = "ListGraphs" THEN local.graphARN
    ELSE IF c.client = "master" THEN local.detectorID
    ELSE local.detector

\* C4: getGraphARN and getDetectorID return the single identifier when the
\* listing succeeds with exactly one element; for every other count n they
\* fail, AddMember returns, and the root cause of the error carries n.
C4_LocatorExactlyOne ==
    \A i \in DOMAIN calls :
        (calls[i].op \in ListingOps /\ calls[i].out.err = NoErr) =>
            IF Len(ListedResources(calls[i])) = 1
            THEN /\ Resolved(calls[i]) = ListedResources(calls[i])[1]
                 /\ ~(pc = "done" /\ Len(calls) = i)
            ELSE /\ pc = "done"
                 /\ Len(calls) = i
                 /\ err # NoErr
                 /\ err[Len(err)] = CountMessage(calls[i])

\* The locator met two resources and the run ended on the count error.
C4_Witness ==
    /\ pc = "done"
    /\ calls # <<>>
    /\ calls[Len(calls)].op \in ListingOps
    /\ calls[Len(calls)].out.err = NoErr
    /\ Len(ListedResources(calls[Len(calls)])) = 2
    /\ err[Len(err)] = CountMessage(calls[Len(calls)])

(***************************************************************************)
(* C5                                                                      *)
(***************************************************************************)
\* The master-side resource listing failed or did not return exactly one resource.
MasterListingUnusable ==
    /\ calls # <<>>
    /\ calls[1].op \in ListingOps
    /\ (calls[1].out.err # NoErr \/ Len(ListedResources(calls[1])) # 1)

\* C5: in GuardDuty and Detective, when the master-side listing fails or does
\* not return exactly one resource, AddMember returns an error and the listing
\* is the only call of the run.
C5_NoCallAfterFailedLookup ==
    MasterListingUnusable =>
        /\ svc \in {"GuardDuty", "Detective"}
        /\ pc = "done"
        /\ err # NoErr
        /\ Len(calls) = 1

\* The master-side ListGraphs call itself failed and AddMember returned.
C5_Witness ==
    /\ pc = "done"
    /\ svc = "Detective"
    /\ MasterListingUnusable
    /\ calls[1].out.err # NoErr
    /\ err = <<"can't get graphARN of master account", "error listing graphs", "mock err">>

(***************************************************************************)
(* C6                                                                      *)
(***************************************************************************)
\* C6: the prober reports Terminal exactly when the membership query succeeds
\* with exactly one record whose status is the service's terminal status; a
\* successful query with any other content reports NotTerminal without an
\* error, so AddMember goes on to CreateMembers.
C6_ProberTerminalIff ==
    \A i \in CallsOf("GetMembers") :
        /\ local.connected = ReportsTerminal(calls[i].out)
        /\ (calls[i].out.err = NoErr /\ ~ReportsTerminal(calls[i].out)) =>
                IF Len(calls) = i
                THEN pc = svc \o "_CreateMembers" /\ err = NoErr
                ELSE calls[i + 1].op = "CreateMembers"

\* The query returned one record with another service's terminal status, and
\* the prober of this service reported NotTerminal.
C6_Witness ==
    /\ svc = "SecurityHub"
    /\ pc = "SecurityHub_CreateMembers"
    /\ calls[1].out.err = NoErr
    /\ MemberStatuses(calls[1].out) = <<"Enabled">>
    /\ ~local.connected

(***************************************************************************)
(* C7                                                                      *)
(***************************************************************************)
\* C7: when GetMembers fails, AddMember returns the membership-query error
\* wrapping the cause, and GetMembers is the last call of the run.
C7_QueryFailureStops ==
    \A i \in CallsOf("GetMembers") :
        calls[i].out.err # NoErr =>
            /\ pc = "done"
            /\ Len(calls) = i
            /\ err = <<"error retrieving information about existing member account",
                       "error getting existing members">> \o calls[i].out.err
            /\ \A k \in DOMAIN calls : calls[k].op \notin EnrollAcceptOps

\* GetMembers failed in Security Hub and AddMember returned its error.
C7_Witness ==
    /\ pc = "done"
    /\ svc = "SecurityHub"
    /\ calls[1].op = "GetMembers"
    /\ calls[1].out.err = MockErr
    /\ err[Len(err)] = "mock err"

(***************************************************************************)
(* C8                                                                      *)
(***************************************************************************)
\* C8: when CreateMembers fails, AddMember returns the enrollment error and no
\* InviteMembers (nor any other call) follows; when InviteMembers fails after a
\* successful CreateMembers, AddMember returns the invitation error and no call
\* follows: nothing undoes the created member, nothing is issued member-side.
C8_EnrollerFailures ==
    /\ \A i \in CallsOf("CreateMembers") :
        calls[i].out.err # NoErr =>
            /\ pc = "done"
            /\ Len(calls) = i
            /\ err = <<"error setting up master account",
                       "error creating member account">> \o calls[i].out.err
    /\ \A i \in CallsOf("InviteMembers") :
        calls[i].out.err # NoErr =>
            /\ calls[i - 1].op = "CreateMembers"
            /\ calls[i - 1].out.err = NoErr
            /\ pc = "done"
            /\ Len(calls) = i
            /\ err = <<"error setting up master account",
                       "error sending invitation">> \o calls[i].out.err
            /\ \A k \in DOMAIN calls : calls[k].client = "master"

\* The member was created, the invitation failed, and AddMember returned.
C8_Witness ==
    /\ pc = "done"
    /\ svc = "GuardDuty"
    /\ Len(calls) = 4
    /\ calls[3].op = "CreateMembers" /\ calls[3].out.err = NoErr
    /\ calls[4].op = "InviteMembers" /\ calls[4].out.err # NoErr
    /\ err = <<"error setting up master account", "error sending invitation", "mock err">>

(***************************************************************************)
(* C9                                                                      *)
(***************************************************************************)
\* The input of an InviteMembers call disables email notification.
EmailNotificationDisabled(in) ==
    /\ "DisableEmailNotification" \in DOMAIN in
    /\ in.DisableEmailNotification = TRUE

\* In GuardDuty and Security Hub a successful CreateMembers is followed by the
\* one InviteMembers of the run; Detective issues none.
OneInviteAfterCreate ==
    /\ Cardinality(CallsOf("InviteMembers")) <= 1
    /\ \A i \in CallsOf("InviteMembers") :
        calls[i - 1].op = "CreateMembers" /\ calls[i - 1].out.err = NoErr
    /\ svc \in {"GuardDuty", "SecurityHub"} =>
        \A i \in CallsOf("CreateMembers") :
            (calls[i].out.err = NoErr /\ pc # svc \o "_InviteMembers") =>
                (Len(calls) > i /\ calls[i + 1].op = "InviteMembers")
    /\ svc = "Detective" => CallsOf("InviteMembers") = {}

\* C9 as stated: one InviteMembers after a successful CreateMembers in GuardDuty
\* and Security Hub, none in Detective, and every InviteMembers call issued has
\* email notification disabled.
C9_AsStated ==
    /\ OneInviteAfterCreate
    /\ \A i \in CallsOf("InviteMembers") : EmailNotificationDisabled(calls[i].in)

\* C9, amended: one InviteMembers after a successful CreateMembers in GuardDuty
\* and Security Hub, none in Detective; the GuardDuty call has email
\* notification disabled, the Security Hub call carries the member account ID
\* and nothing else.
C9_InviteOnceAfterCreate ==
    /\ OneInviteAfterCreate
    /\ \A i \in CallsOf("InviteMembers") :
        /\ calls[i].in.AccountIds = <<accountID>>
        /\ IF svc = "GuardDuty"
           THEN EmailNotificationDisabled(calls[i].in)
           ELSE DOMAIN calls[i].in = {"AccountIds"}

\* GuardDuty has sent its invitation after creating the member.
C9_Witness ==
    /\ svc = "GuardDuty"
    /\ pc = "GuardDuty_ListInvitations"
    /\ Cardinality(CallsOf("InviteMembers")) = 1
    /\ calls[3].op = "CreateMembers" /\ calls[3].out.err = NoErr
    /\ calls[4].op = "InviteMembers"

(***************************************************************************)
(* C10                                                                     *)
(***************************************************************************)
\* C10: when the invitations are listed and none is from the master account,
\* AddMember returns the invitation-not-found error without an AcceptInvitation
\* call; at most one AcceptInvitation is issued, only when an invitation from
\* the master account is listed, and it carries the token of the first such
\* invitation in list order.
C10_AcceptsFirstMatching ==
    /\ Cardinality(CallsOf("AcceptInvitation")) <= 1
    /\ \A i \in CallsOf("ListInvitations") :
        LET invitations == calls[i].out.Invitations IN
        /\ (calls[i].out.err = NoErr /\ Matching(invitations) = {}) =>
            /\ pc = "done"
            /\ Len(calls) = i
            /\ err = <<"error accepting invitation in member account",
                       "can't find invitation from master account">>
        /\ \A k \in CallsOf("AcceptInvitation") :
            /\ k > i
            /\ calls[i].out.err = NoErr
            /\ Matching(invitations) # {}
            /\ AcceptedToken(calls[k].in)
                 = InvitationToken(invitations[FirstMatching(invitations)])
    /\ \A k \in CallsOf("AcceptInvitation") : CallsOf("ListInvitations") # {}

\* Two invitations from the master account with different tokens were listed
\* and the invitation was accepted.
C10_Witness ==
    /\ pc = "done"
    /\ \E i \in CallsOf("ListInvitations") :
        LET invitations == calls[i].out.Invitations IN
        /\ Cardinality(Matching(invitations)) = 2
        /\ InvitationToken(invitations[1]) # InvitationToken(invitations[2])
    /\ CallsOf("AcceptInvitation") # {}

(***************************************************************************)
(* C11                                                                     *)
(***************************************************************************)
\* The member-side detector listings of a GuardDuty run.
MemberListings ==
    {i \in CallsOf("ListDetectors") : calls[i].client = "member"}

\* C11: in GuardDuty, AcceptInvitation directly follows a member-side
\* ListDetectors that returned exactly one detector and carries that detector
\* as DetectorId; when the member-side listing fails or does not return exactly
\* one detector, AddMember returns the member-side lookup error and the listing
\* is the last call: no AcceptInvitation is issued.
C11_AcceptsWithMemberDetector ==
    svc = "GuardDuty" =>
        /\ \A k \in CallsOf("AcceptInvitation") :
            /\ k - 1 \in MemberListings
            /\ calls[k - 1].out.err = NoErr
            /\ Len(calls[k - 1].out.DetectorIds) = 1
            /\ calls[k].in.DetectorId = calls[k - 1].out.DetectorIds[1]
        /\ \A i \in MemberListings :
            (calls[i].out.err # NoErr \/ Len(calls[i].out.DetectorIds) # 1) =>
                /\ pc = "done"
                /\ Len(calls) = i
                /\ Len(err) >= 3
                /\ err[1] = "error accepting invitation in member account"
                /\ err[2] = "can't get detectorID to accept invitation"
                /\ CallsOf("AcceptInvitation") = {}

\* The invitation was accepted with the member's detector, which is not the
\* detector of the master account.
C11_Witness ==
    /\ svc = "GuardDuty"
    /\ pc = "done"
    /\ Len(calls) = 7
    /\ calls[1].out.DetectorIds = <<"detector_a">>
    /\ calls[6].out.DetectorIds = <<"detector_b">>
    /\ calls[7].in.DetectorId = "detector_b"

(***************************************************************************)
(* C12                                                                     *)
(***************************************************************************)
\* The step that issued call i failed: the call returned an error, a resource
\* listing did not return exactly one resource, or the invitations listed hold
\* no invitation from the master account that carries a token.
StepFailed(i) ==
    \/ calls[i].out.err # NoErr
    \/ calls[i].op \in ListingOps /\ Len(ListedResources(calls[i])) # 1
    \/ /\ calls[i].op = "ListInvitations"
       /\ LET invitations == calls[i].out.Invitations IN
          \/ Matching(invitations) = {}
          \/ InvitationToken(invitations[FirstMatching(invitations)]) = Nil

Reconcilers == {"GuardDuty", "SecurityHub", "Detective"}

\* C12: in every reconciler, a failed step is the last one of the invocation:
\* AddMember has returned an error and no remote call follows the failing one.
C12_FailureIsLastCall ==
    svc \in Reconcilers =>
        \A i \in DOMAIN calls :
            StepFailed(i) =>
                /\ pc = "done"
                /\ err # NoErr
                /\ Len(calls) = i

\* Detective: the member was created, no invitation from the master account was
\* listed, and AddMember returned the error after that fourth call.
C12_Witness ==
    /\ svc = "Detective"
    /\ pc = "done"
    /\ Len(calls) = 4
    /\ calls[3].op = "CreateMembers"
    /\ calls[4].op = "ListInvitations"
    /\ calls[4].out.err = NoErr
    /\ StepFailed(4)

(***************************************************************************)
(* C13                                                                     *)
(***************************************************************************)
\* The first call of an AddMember invocation: step 1 of the reconciler.
StepOne ==
    IF svc = "GuardDuty" THEN <<"master", "ListDetectors">>
    ELSE IF svc = "SecurityHub" THEN <<"master", "GetMembers">>
    ELSE <<"master", "ListGraphs">>

\* The locals hold nothing but what the calls of this invocation resolved.
LocalsAreOfThisRun ==
    /\ CallsOf("GetMembers") = {} => ~local.connected
    /\ CallsOf("ListInvitations") = {} => (local.invitationID = Nil /\ local.graphArn = Nil)
    /\ CallsOf("ListGraphs") = {} => local.graphARN = Nil
    /\ CallsOf("ListDetectors") = {} => (local.detectorID = Nil /\ local.detector = Nil)
    /\ MemberListings = {} => local.detector = Nil

\* The run in progress, or just returned, follows a run that failed.
AfterFailedRun ==
    /\ svc \in Reconcilers
    /\ prev.outcome = "failed"
    /\ pc # "idle"

\* The run ended connected after its probe, or accepted after the full sequence.
EndedInSuccess ==
    /\ err = NoErr
    /\ \/ local.connected /\ calls[Len(calls)].op = "GetMembers"
       \/ ~local.connected /\ Observed = FullSequence

\* C13 as stated: a run that follows a failed run starts at step 1 with no
\* state of the failed run, and ends in success if every remote call succeeds.
C13_AsStated ==
    AfterFailedRun =>
        /\ Observed[1] = StepOne
        /\ LocalsAreOfThisRun
        /\ (pc = "done" /\ EveryCallSucceeded) => EndedInSuccess

\* C13, amended: a run that follows a failed run (also one that failed after
\* CreateMembers had succeeded) starts at step 1 with no state of the failed
\* run, and ends in success if no step of it fails: every remote call succeeds,
\* every resource listing returns exactly one resource, and the invitations
\* listed hold one from the master account that carries a token.
C13_RerunStartsAtStepOne ==
    AfterFailedRun =>
        /\ Observed[1] = StepOne
        /\ LocalsAreOfThisRun
        /\ (pc = "done" /\ \A i \in DOMAIN calls : ~StepFailed(i)) => EndedInSuccess

\* After a run that failed with the member already created, Security Hub ran
\* the full sequence again, CreateMembers included, and returned nil.
C13_Witness ==
    /\ svc = "SecurityHub"
    /\ prev.outcome = "failed"
    /\ prev.created
    /\ pc = "done"
    /\ err = NoErr
    /\ Observed = FullSequence

(***************************************************************************)
(* C14                                                                     *)
(***************************************************************************)
\* The response bodies AddAWSAccount decodes are those of its GET calls.
Decoded(i) == calls[i].op = "GET"

\* Call i of AddAWSAccount failed: the call returned an error, or the body it
\* returned was decoded and is not JSON.
PrismaStepFailed(i) ==
    \/ calls[i].out.err # NoErr
    \/ Decoded(i) /\ ~IsJSON(calls[i].out.body)

\* Call i of the invocation, of any connector, failed.
AnyStepFailed(i) ==
    IF svc = "Prisma" THEN PrismaStepFailed(i) ELSE StepFailed(i)

\* C14: AddMember (all three services) and AddAWSAccount return nil only if
\* every remote call of the invocation succeeded, every decoded response was
\* decodable, every resource listing returned exactly one resource, and the
\* invitations listed held a usable one from the master account.
C14_NoFailureSwallowed ==
    (pc = "done" /\ err = NoErr) =>
        \A i \in DOMAIN calls : ~AnyStepFailed(i)

\* AddAWSAccount returned nil after its three calls, the PUT included.
C14_Witness ==
    /\ svc = "Prisma"
    /\ pc = "done"
    /\ err = NoErr
    /\ Len(calls) = 3
    /\ calls[3].op = "PUT"

(***************************************************************************)
(* C15                                                                     *)
(***************************************************************************)
\* The message of the stage in which call c is issued.
StageOf(c) ==
    IF svc = "Prisma"
    THEN IF c.in.url = "/cloud" THEN "error checking for existing account"
         ELSE IF c.op = "POST" THEN "error creating new account"
         ELSE "error updating existing account"
    ELSE IF c.op \in ListingOps /\ c.client = "master"
         THEN IF svc = "GuardDuty" THEN "can't get detectorID of master account"
              ELSE "can't get graphARN of master account"
    ELSE IF c.op = "GetMembers"
         THEN "error retrieving information about existing member account"
    ELSE IF c.op \in {"CreateMembers", "InviteMembers"}
         THEN "error setting up master account"
    ELSE "error accepting invitation in member account"

\* The original cause of the failure of call c: the error of the remote side,
\* the decoding error, the count of the listing, or the missing invitation.
CauseOf(c) ==
    IF c.out.err # NoErr THEN c.out.err[Len(c.out.err)]
    ELSE IF svc = "Prisma" THEN UnmarshalError(c.out.body)[1]
    ELSE IF c.op = "ListDetectors"
         THEN ToString(Len(c.out.DetectorIds)) \o " detectors found instead of one"
    ELSE IF c.op = "ListGraphs"
         THEN ToString(Len(c.out.GraphList)) \o " graphs found instead of one"
    ELSE "can't find invitation from master account"

\* The messages that name the sub-steps of the stages.
SubStepMessages ==
    {"error listing detectors", "error listing graphs",
     "error getting existing members",
     "error creating member account", "error sending invitation",
     "error retrieving list of invitations", "can't find invitation from master account",
     "can't get detectorID to accept invitation", "error accepting invitation",
     "error retrieving list of accounts", "error unmarshalling accounts information",
     "error retrieving existing account details", "error unmarshalling account details",
     "error sending API request"}

\* C15: the error AddMember or AddAWSAccount returns is a chain that starts
\* with the message of the stage in which the last, failing call was issued,
\* goes on with the failing sub-step and ends with the original cause; the
\* sub-step message is absent only where the cause itself is the report of the
\* sub-step (a listing with a count other than one).
C15_ErrorNamesStage ==
    (pc = "done" /\ err # NoErr) =>
        LET c == calls[Len(calls)] IN
        /\ Len(err) >= 2
        /\ err[1] = StageOf(c)
        /\ err[Len(err)] = CauseOf(c)
        /\ \A j \in 2..(Len(err) - 1) : err[j] \in SubStepMessages
        /\ (err[2] \in SubStepMessages
            \/ (Len(err) = 2 /\ c.op \in ListingOps /\ c.out.err = NoErr))

\* AddAWSAccount returned the three-element chain of a failed create.
C15_Witness ==
    /\ svc = "Prisma"
    /\ pc = "done"
    /\ err = <<"error creating new account", "error sending API request", "mock err">>
    /\ calls[Len(calls)].op = "POST"

(***************************************************************************)
(* Vocabulary of the properties of main                                    *)
(***************************************************************************)
\* The positions in invoked of the AddMember invocations of service s in
\* region r, of the resolutions of the master account ID, and of all
\* AddMember invocations.
InvocationsOf(s, r) ==
    {i \in DOMAIN invoked : invoked[i].unit = s /\ invoked[i].region = r}
Resolutions == {i \in DOMAIN invoked : invoked[i].unit = "GetAccountID"}
AddMemberInvocations == {i \in DOMAIN invoked : invoked[i].unit \in Reconcilers}

MasterResolved == \E i \in Resolutions : invoked[i].err = NoErr

\* The regions that are not excluded, and the services that are enabled.
IncludedRegions == Regions \ opts.RegionExceptions
EnabledServices == {s \in Reconcilers : opts[s]}

\* The process ended in flags.Parse; main is past its AWS block.
ParseFailed == mpc = "exited" /\ exitCode = 1
PastAWSBlock == mpc = "Exit" \/ (mpc = "exited" /\ exitCode # 1)

AbortMessage == "problem retrieving master account ID, aborting AWS services adding"

(***************************************************************************)
(* C16                                                                     *)
(***************************************************************************)
\* C16: no (region, service) unit is invoked twice, and when main is past its
\* loop with the master account ID resolved, AddMember has been invoked exactly
\* once for every non-excluded region and every enabled service, whatever the
\* invocations returned.
C16_SiblingsStillRun ==
    /\ \A r \in Regions, s \in Reconcilers : Cardinality(InvocationsOf(s, r)) <= 1
    /\ (PastAWSBlock /\ MasterResolved) =>
        \A r \in IncludedRegions, s \in EnabledServices :
            Cardinality(InvocationsOf(s, r)) = 1

\* The first AddMember of the run failed, and the five sibling units of the
\* same and of the other region were invoked after it.
C16_Witness ==
    /\ mpc = "exited"
    /\ Len(invoked) = 7
    /\ invoked[1].unit = "GetAccountID"
    /\ invoked[2].unit = "GuardDuty"
    /\ invoked[2].err # NoErr
    /\ invoked[3].region = invoked[2].region
    /\ invoked[7].region # invoked[2].region

(***************************************************************************)
(* C17                                                                     *)
(***************************************************************************)
\* C17: a failed resolution of the master account ID is the last invocation of
\* the run: main has left the loop, exactly one error is recorded for it, and
\* no AddMember of any service is invoked in that region or after it.
C17_FailedResolutionAborts ==
    \A i \in Resolutions :
        invoked[i].err # NoErr =>
            /\ mpc \in {"Exit", "exited"}
            /\ i = Len(invoked)
            /\ \A s \in Reconcilers : InvocationsOf(s, invoked[i].region) = {}
            /\ Cardinality({j \in DOMAIN result : result[j][1] = AbortMessage}) = 1
            /\ result[Len(result)] = Wrap(invoked[i].err, AbortMessage)

\* The resolution failed in the first region visited; the other region, not
\* excluded and with every service enabled, was never visited.
C17_Witness ==
    /\ mpc = "exited"
    /\ exitCode = 3
    /\ \E i \in Resolutions : invoked[i].err # NoErr
    /\ todo \cap IncludedRegions # {}
    /\ EnabledServices = Reconcilers

(***************************************************************************)
(* C18                                                                     *)
(***************************************************************************)
\* C18: in a run the master account ID is resolved at most once, a successful
\* resolution precedes every AddMember invocation, and every AddMember
\* invocation receives the value that resolution returned.
C18_ResolvedOnce ==
    /\ Cardinality(Resolutions) <= 1
    /\ \A j \in AddMemberInvocations :
        \E i \in Resolutions :
            /\ i < j
            /\ invoked[i].err = NoErr
            /\ invoked[j].masterAccountID = invoked[i].masterAccountID

\* AddMember was invoked in two regions with the one account ID that was
\* resolved in the first.
C18_Witness ==
    /\ mpc = "exited"
    /\ \E j, k \in AddMemberInvocations :
        /\ invoked[j].region # invoked[k].region
        /\ invoked[j].masterAccountID = otherAccountID
        /\ invoked[k].masterAccountID = otherAccountID

(***************************************************************************)
(* C19                                                                     *)
(***************************************************************************)
\* Every invocation main made returned nil.
EveryUnitSucceeded == \A i \in DOMAIN invoked : invoked[i].err = NoErr

\* C19 as stated: the exit code is 0 exactly when no error was aggregated,
\* which is exactly when every unit invoked succeeded.
C19_AsStated ==
    mpc = "exited" =>
        /\ exitCode = 0 <=> result = <<>>
        /\ result = <<>> <=> EveryUnitSucceeded

\* C19, amended: once the options are parsed, the exit code is 0 exactly when
\* no error was aggregated, which is exactly when the CSPM synchronization (when
\* run), the resolution of the master account ID and every AddMember invoked
\* succeeded, and it is 3 otherwise; when flags.Parse fails the exit code is 1
\* and nothing was invoked or aggregated.
C19_ExitCode ==
    mpc = "exited" =>
        IF exitCode = 1
        THEN invoked = <<>> /\ result = <<>>
        ELSE /\ exitCode \in {0, 3}
             /\ exitCode = 0 <=> result = <<>>
             /\ result = <<>> <=> EveryUnitSucceeded

\* The run synchronized the CSPM, resolved the master account ID, invoked
\* AddMember, found no error and exited with code 0.
C19_Witness ==
    /\ mpc = "exited"
    /\ exitCode = 0
    /\ Len(invoked) >= 3
    /\ invoked[1].unit = "Prisma"
    /\ AddMemberInvocations # {}

(***************************************************************************)
(* C20                                                                     *)
(***************************************************************************)
IsAWSInvocation(x) == x.unit # "Prisma"

\* The invocations of the AWS block, in order.
AWSInvocations == SelectSeq(invoked, IsAWSInvocation)

\* C20: AddAWSAccount is invoked first, before any AWS unit, exactly when both
\* the API key and the API password are set; and what the AWS block invokes is
\* settled by the options and the resolution of the master account ID alone,
\* whether AddAWSAccount ran, failed or succeeded: nothing when no service is
\* enabled or every region is excluded, else the resolution, followed when it
\* succeeds by one AddMember per non-excluded region and enabled service.
C20_CSPMAndAWSIndependent ==
    /\ \A i \in DOMAIN invoked : invoked[i].unit = "Prisma" => i = 1
    /\ (mpc \notin {"Parse", "Prisma"} /\ ~ParseFailed) =>
        ((opts.APIKey # "" /\ opts.APIPassword # "")
            <=> (invoked # <<>> /\ invoked[1].unit = "Prisma"))
    /\ PastAWSBlock =>
        IF EnabledServices = {} \/ IncludedRegions = {}
        THEN AWSInvocations = <<>>
        ELSE /\ AWSInvocations # <<>>
             /\ AWSInvocations[1].unit = "GetAccountID"
             /\ IF AWSInvocations[1].err # NoErr
                THEN Len(AWSInvocations) = 1
                ELSE /\ Len(AWSInvocations) =
                            1 + Cardinality(IncludedRegions) * Cardinality(EnabledServices)
                     /\ \A r \in IncludedRegions, s \in EnabledServices :
                            Cardinality(InvocationsOf(s, r)) = 1

\* AddAWSAccount failed, and every service was then reconciled in every region.
C20_Witness ==
    /\ mpc = "exited"
    /\ invoked # <<>>
    /\ invoked[1].unit = "Prisma"
    /\ invoked[1].err # NoErr
    /\ Len(AWSInvocations) = 1 + Cardinality(Regions) * 3

(***************************************************************************)
(* Vocabulary of the properties of AddAWSAccount                           *)
(***************************************************************************)
\* The positions of the recorded calls of a method on a path.
PrismaCalls(method, url) ==
    {i \in DOMAIN calls : calls[i].op = method /\ calls[i].in.url = url}

AccountURL == "/cloud/aws/" \o accountID
Posts == PrismaCalls("POST", "/cloud/aws/")
Puts == PrismaCalls("PUT", AccountURL)
AccountFetches == PrismaCalls("GET", AccountURL)

\* The response of GET /cloud came without error and is JSON.
ListingDecoded(out) == out.err = NoErr /\ IsJSON(out.body)

\* The decoded listing holds a record of the given account.
ListingHolds(out, id) ==
    \E j \in DOMAIN out.body.json : UnmarshalAccounts(out.body).val[j].accountId = id

(***************************************************************************)
(* C21                                                                     *)
(***************************************************************************)
\* C21: AddAWSAccount, once returned, has issued a POST /cloud/aws/ exactly
\* when the listing succeeded, was decoded and holds no record of the given
\* account; it then issued exactly one POST, as its second and last call, no
\* GET /cloud/aws/{id} and no PUT.  No POST is ever issued otherwise.
C21_CreateIffAbsent ==
    svc = "Prisma" =>
        LET absent == /\ ListingDecoded(calls[1].out)
                      /\ ~ListingHolds(calls[1].out, accountID)
        IN
        /\ Posts # {} => absent
        /\ pc = "done" =>
            /\ Posts # {} <=> absent
            /\ absent =>
                /\ Cardinality(Posts) = 1
                /\ Len(calls) = 2
                /\ AccountFetches = {}
                /\ Puts = {}

\* The listing held two records of other accounts; one POST followed.
C21_Witness ==
    /\ svc = "Prisma"
    /\ pc = "done"
    /\ ListingDecoded(calls[1].out)
    /\ Len(calls[1].out.body.json) = 2
    /\ Posts = {2}

(***************************************************************************)
(* C22                                                                     *)
(***************************************************************************)
\* The record a fetched JSON object stands for: the fields it lacks are zero.
FetchedRecord(out) == UnmarshalAccountInfo(out.body).val

\* The record a POST or PUT carries in its body.
SentRecord(c) == UnmarshalAccountInfo(c.in.body).val

\* The desired record of the invocation, merged with the fetched one: the
\* provided name, or the fetched name when none was provided.
MergedDesired(old) ==
    [name |-> IF local.name = "" THEN old.name ELSE local.name,
     enabled |-> TRUE,
     externalId |-> externalID,
     roleArn |-> buildRoleARN(accountID, roleName),
     accountId |-> accountID]

\* The two records differ in at least one of the five fields.
Differ(a, b) == \E k \in DOMAIN ZeroAccountInfo : a[k] # b[k]

\* The account exists and its record was fetched and decoded.
FetchedExisting ==
    /\ svc = "Prisma"
    /\ pc = "done"
    /\ Len(calls) >= 2
    /\ AccountFetches = {2}
    /\ ListingDecoded(calls[2].out)

\* C22: when the account exists and its record was fetched, AddAWSAccount has
\* issued a PUT exactly when the merged desired record differs from the fetched
\* record in one of the five fields; when the five are equal it issued no PUT
\* and returned nil.
C22_UpdateIffDifferent ==
    FetchedExisting =>
        LET old == FetchedRecord(calls[2].out) IN
        /\ Puts # {} <=> Differ(MergedDesired(old), old)
        /\ ~Differ(MergedDesired(old), old) => (err = NoErr /\ Len(calls) = 2)

\* No name was provided, the fetched record equals the desired one with its
\* own name, and AddAWSAccount returned nil without a PUT.
C22_Witness ==
    /\ FetchedExisting
    /\ local.name = ""
    /\ FetchedRecord(calls[2].out).name = "old_name"
    /\ Puts = {}
    /\ err = NoErr

(***************************************************************************)
(* C23                                                                     *)
(***************************************************************************)
\* The account record was fetched and decoded, and merged with the desired one.
Merged ==
    /\ svc = "Prisma"
    /\ pc \in {"Prisma_PUT", "done"}
    /\ Len(calls) >= 2
    /\ AccountFetches = {2}
    /\ ListingDecoded(calls[2].out)

\* C23 as stated: the name sent on create is the account ID if and only if the
\* provided name is empty, and the merged name on update is the name of the
\* fetched record if and only if the provided name is empty; otherwise each is
\* the provided name.
C23_AsStated ==
    /\ svc = "Prisma" =>
        \A i \in Posts :
            /\ SentRecord(calls[i]).name = accountID <=> local.name = ""
            /\ local.name # "" => SentRecord(calls[i]).name = local.name
    /\ Merged =>
        LET old == FetchedRecord(calls[2].out) IN
        /\ local.newAcc.name = old.name <=> local.name = ""
        /\ local.name # "" => local.newAcc.name = local.name

\* C23, amended: the name rule.  The record sent on create takes the account ID as its
\* name if the provided name is empty and the provided name otherwise; the
\* merged record on update, and the record a PUT sends, takes the name of the
\* fetched record if the provided name is empty and the provided name
\* otherwise.  So the name sent on create is the account ID exactly when no
\* name was provided or the account ID itself was provided as name, and the
\* merged name is the fetched one exactly when no name was provided or the
\* provided name is the fetched one.
C23_NameRule ==
    /\ svc = "Prisma" =>
        \A i \in Posts :
            /\ SentRecord(calls[i]).name = IF local.name = "" THEN accountID ELSE local.name
            /\ SentRecord(calls[i]).name = accountID <=> local.name \in {"", accountID}
    /\ Merged =>
        LET old == FetchedRecord(calls[2].out) IN
        /\ local.newAcc.name = IF local.name = "" THEN old.name ELSE local.name
        /\ local.newAcc.name = old.name <=> local.name \in {"", old.name}
        /\ \A i \in Puts : SentRecord(calls[i]).name = local.newAcc.name

\* No name was provided and the account was created under its account ID.
C23_Witness ==
    /\ svc = "Prisma"
    /\ pc = "done"
    /\ local.name = ""
    /\ Posts = {2}
    /\ SentRecord(calls[2]).name = accountID

(***************************************************************************)
(* C24                                                                     *)
(***************************************************************************)
\* C24: every record AddAWSAccount sends in a POST or a PUT has a non-empty
\* name, whatever name was provided and whatever the existing record holds.
C24_NamesNeverEmpty ==
    svc = "Prisma" =>
        \A i \in Posts \cup Puts : SentRecord(calls[i]).name # ""

(***************************************************************************)
(* C25                                                                     *)
(***************************************************************************)
\* C25: AddAWSAccount stops at its first failure.  When GET /cloud fails or
\* its body is not decodable it is the only call; when GET /cloud/aws/{id}
\* fails or its body is not decodable it is the last call and no PUT is issued;
\* in each case AddAWSAccount has returned an error.
C25_StopsAtFirstFailure ==
    svc = "Prisma" =>
        /\ (calls # <<>> /\ ~ListingDecoded(calls[1].out)) =>
            /\ pc = "done"
            /\ err # NoErr
            /\ Len(calls) = 1
        /\ \A i \in AccountFetches :
            ~ListingDecoded(calls[i].out) =>
                /\ pc = "done"
                /\ err # NoErr
                /\ Len(calls) = i
                /\ Puts = {}

\* The record of the existing account came back undecodable: AddAWSAccount
\* returned the error after its second call.
C25_Witness ==
    /\ svc = "Prisma"
    /\ pc = "done"
    /\ err # NoErr
    /\ Len(calls) = 2
    /\ AccountFetches = {2}
    /\ calls[2].out.err = NoErr
    /\ ~IsJSON(calls[2].out.body)

(***************************************************************************)
(* C26                                                                     *)
(***************************************************************************)
\* The positions of the recorded calls of operation op on a client handle.
CallsOn(client, op) ==
    {i \in DOMAIN calls : calls[i].client = client /\ calls[i].op = op}

AddMemberOps ==
    {"ListDetectors", "ListGraphs", "GetMembers", "CreateMembers", "InviteMembers",
     "ListInvitations", "AcceptInvitation"}

\* C26: inside an AddMember invocation nothing is retried: every operation is
\* issued at most once on each client handle, whatever it returned; and the
\* master handle is only asked for the resource listing, GetMembers,
\* CreateMembers and InviteMembers, the member handle only for ListInvitations,
\* ListDetectors and AcceptInvitation.
C26_NothingRetried ==
    svc \in Reconcilers =>
        /\ \A client \in {"master", "member"}, op \in AddMemberOps :
            Cardinality(CallsOn(client, op)) <= 1
        /\ \A i \in DOMAIN calls :
            /\ calls[i].op \in AddMemberOps
            /\ calls[i].client = "master" <=>
                calls[i].op \in {"GetMembers", "CreateMembers", "InviteMembers"}
                    \/ (calls[i].op \in ListingOps /\ i = 1)
            /\ calls[i].client = "member" <=>
                calls[i].op \in {"ListInvitations", "AcceptInvitation"}
                    \/ (calls[i].op = "ListDetectors" /\ i > 1)

\* Security Hub: InviteMembers failed, was not attempted again, and AddMember
\* returned the error.
C26_Witness ==
    /\ svc = "SecurityHub"
    /\ pc = "done"
    /\ err # NoErr
    /\ Len(calls) = 3
    /\ calls[3].op = "InviteMembers"
    /\ calls[3].out.err # NoErr

(***************************************************************************)
(* C27                                                                     *)
(***************************************************************************)
\* C27: the AddMember of Security Hub issues no resource listing on either
\* handle, its first call is GetMembers on the master handle, and its
\* AcceptInvitation input holds the invitation ID and the master account ID
\* and nothing else.
C27_SecurityHubNoResource ==
    svc = "SecurityHub" =>
        /\ \A i \in DOMAIN calls : calls[i].op \notin ListingOps
        /\ calls # <<>> => Observed[1] = <<"master", "GetMembers">>
        /\ \A k \in CallsOf("AcceptInvitation") :
            /\ DOMAIN calls[k].in = {"InvitationId", "MasterId"}
            /\ calls[k].in.MasterId = masterAccountID
            /\ calls[k].in.InvitationId = local.invitationID

\* Security Hub accepted the invitation after its five calls.
C27_Witness ==
    /\ svc = "SecurityHub"
    /\ pc = "done"
    /\ err = NoErr
    /\ Len(calls) = 5
    /\ calls[5].op = "AcceptInvitation"

(***************************************************************************)
(* C28                                                                     *)
(***************************************************************************)
\* The positions inside the region loop of main.
LoopPositions == {"Region", "GuardDuty", "SecurityHub", "Detective"}

\* C28: main makes no invocation of the AWS block for an excluded region or a
\* disabled service, an excluded region is never the region of an iteration
\* that reaches the sessions, and when no service is enabled the loop is not
\* entered: no region is visited and the master account ID is not resolved.
C28_OnlyIncludedAndEnabled ==
    /\ \A i \in DOMAIN invoked :
        invoked[i].unit # "Prisma" =>
            /\ invoked[i].region \notin opts.RegionExceptions
            /\ invoked[i].unit \in Reconcilers => opts[invoked[i].unit]
    /\ region \notin opts.RegionExceptions
    /\ EnabledServices = {} =>
        /\ AWSInvocations = <<>>
        /\ mpc \notin LoopPositions
        /\ todo = {}
        /\ region = Nil
        /\ mainMasterAccountID = ""

\* One region was excluded and GuardDuty disabled: the run resolved the master
\* account ID and invoked the two other services in the one other region.
C28_Witness ==
    /\ mpc = "exited"
    /\ Cardinality(opts.RegionExceptions) = 1
    /\ EnabledServices = {"SecurityHub", "Detective"}
    /\ Len(AWSInvocations) = 3
    /\ todo = {}

(***************************************************************************)
(* C29                                                                     *)
(***************************************************************************)
PrismaInvocations == {i \in DOMAIN invoked : invoked[i].unit = "Prisma"}

\* C29: in a run AddAWSAccount is invoked at most once, however many regions
\* are visited and services enabled, and only when the API key and the API
\* password are both non-empty.
C29_CSPMAtMostOnce ==
    /\ Cardinality(PrismaInvocations) <= 1
    /\ PrismaInvocations # {} => (opts.APIKey # "" /\ opts.APIPassword # "")

\* AddAWSAccount was invoked once in a run that reconciled three services in
\* every region.
C29_Witness ==
    /\ mpc = "exited"
    /\ Cardinality(PrismaInvocations) = 1
    /\ Cardinality(AddMemberInvocations) = 3 * Cardinality(Regions)

(***************************************************************************)
(* C30                                                                     *)
(***************************************************************************)
\* The membership query answered with exactly one record, of a status that is
\* not the terminal one.
ReportsNonTerminal(out) ==
    /\ out.err = NoErr
    /\ Len(MemberStatuses(out)) = 1
    /\ MemberStatuses(out)[1] # TerminalStatus

\* The operation that precedes ListInvitations in a full run.
LastEnrollOp == IF svc = "Detective" THEN "CreateMembers" ELSE "InviteMembers"

\* C30: after a GetMembers response of exactly one record with a non-terminal
\* status, the next call of AddMember is CreateMembers for the given account;
\* InviteMembers follows a successful CreateMembers in GuardDuty and Security
\* Hub; and ListInvitations is only issued directly after the last of them
\* succeeded.
C30_NonTerminalStillEnrolls ==
    svc \in Reconcilers =>
        \A i \in CallsOf("GetMembers") :
            ReportsNonTerminal(calls[i].out) =>
                /\ IF Len(calls) = i
                   THEN pc = svc \o "_CreateMembers"
                   ELSE Observed[i + 1] = <<"master", "CreateMembers">>
                /\ (Len(calls) > i + 1 /\ svc # "Detective") =>
                        Observed[i + 2] = <<"master", "InviteMembers">>
                /\ \A k \in CallsOf("ListInvitations") :
                    /\ k > i + 1
                    /\ calls[k - 1].op = LastEnrollOp
                    /\ calls[k - 1].out.err = NoErr

\* GuardDuty: the member was reported as "Invited", and was created and invited
\* again before the invitation was accepted.
C30_Witness ==
    /\ svc = "GuardDuty"
    /\ pc = "done"
    /\ err = NoErr
    /\ Len(calls) = 7
    /\ ReportsNonTerminal(calls[2].out)
    /\ MemberStatuses(calls[2].out)[1] = "Invited"
    /\ calls[3].op = "CreateMembers"
    /\ calls[4].op = "InviteMembers"

(***************************************************************************)
(* C31                                                                     *)
(***************************************************************************)
\* The membership query answered with two or more records.
ReportsSeveral(out) ==
    /\ out.err = NoErr
    /\ Len(MemberStatuses(out)) >= 2

\* The account a CreateMembers input enrolls.
CreatedAccounts(in) ==
    IF svc = "Detective" THEN [j \in DOMAIN in.Accounts |-> in.Accounts[j].AccountId]
    ELSE [j \in DOMAIN in.AccountDetails |-> in.AccountDetails[j].AccountId]

\* C31: in each reconciler, when GetMembers returns two or more records, the
\* probe reports "not connected" without error whatever the statuses of the
\* records are, and the next call of AddMember is CreateMembers for the given
\* account.
C31_SeveralRecordsStillEnroll ==
    svc \in Reconcilers =>
        \A i \in CallsOf("GetMembers") :
            ReportsSeveral(calls[i].out) =>
                /\ ~local.connected
                /\ IF Len(calls) = i
                   THEN pc = svc \o "_CreateMembers" /\ err = NoErr
                   ELSE /\ Observed[i + 1] = <<"master", "CreateMembers">>
                        /\ CreatedAccounts(calls[i + 1].in) = <<accountID>>

\* Detective: two records, both with the terminal status, were returned and
\* CreateMembers was issued next.
C31_Witness ==
    /\ svc = "Detective"
    /\ Len(calls) >= 3
    /\ calls[2].op = "GetMembers"
    /\ MemberStatuses(calls[2].out) = <<"Enabled", "Enabled">>
    /\ calls[3].op = "CreateMembers"

(***************************************************************************)
(* C32                                                                     *)
(***************************************************************************)
\* The master-side operations of a full run of each service, in order.
MasterOps ==
    IF svc = "GuardDuty" THEN <<"ListDetectors", "GetMembers", "CreateMembers", "InviteMembers">>
    ELSE IF svc = "SecurityHub" THEN <<"GetMembers", "CreateMembers", "InviteMembers">>
    ELSE <<"ListGraphs", "GetMembers", "CreateMembers">>

\* The positions of the calls issued on the member client.
MemberSide == {k \in DOMAIN calls : calls[k].client = "member"}

\* The master-side call at position j succeeded: it returned no error, a
\* resource listing returned exactly one resource, and the membership query did
\* not report the member connected.
MasterCallSucceeded(j) ==
    /\ calls[j].out.err = NoErr
    /\ calls[j].op \in ListingOps => Len(ListedResources(calls[j])) = 1
    /\ calls[j].op = "GetMembers" => ~ReportsTerminal(calls[j].out)

\* C32: in each reconciler, a call on the member client (ListInvitations, the
\* member-side ListDetectors, AcceptInvitation) is only issued when, in the same
\* invocation, all master-side calls of the service (resource lookup,
\* GetMembers, CreateMembers, and InviteMembers where the service has it) were
\* issued before it, each succeeded, and the membership probe reported "not
\* connected"; no master-side call follows a member-side one.
C32_MemberSideAfterMasterSide ==
    svc \in Reconcilers =>
        \A k \in MemberSide :
            /\ k > Len(MasterOps)
            /\ \A j \in 1..Len(MasterOps) :
                /\ Observed[j] = <<"master", MasterOps[j]>>
                /\ MasterCallSucceeded(j)
            /\ \A j \in (Len(MasterOps) + 1)..Len(calls) : j \in MemberSide
            /\ ~local.connected

\* Security Hub: the member side was entered and completed after the three
\* master-side calls.
C32_Witness ==
    /\ svc = "SecurityHub"
    /\ pc = "done"
    /\ Len(calls) = 5
    /\ MemberSide = {4, 5}
    /\ calls[5].op = "AcceptInvitation"
    /\ calls[5].out.err = NoErr

(***************************************************************************)
(* C33                                                                     *)
(***************************************************************************)
\* The error acceptGuardDutyMemberInvitation returns through AddMember when
\* ListInvitations failed with e, and when the scan found no invitation.
InvitationListingError(e) ==
    <<"error accepting invitation in member account",
      "error retrieving list of invitations">> \o e
InvitationNotFoundError ==
    <<"error accepting invitation in member account",
      "can't find invitation from master account">>

\* C33: in GuardDuty, a member-side ListDetectors directly follows a
\* ListInvitations that succeeded and listed an invitation from the master
\* account; when ListInvitations fails or lists no invitation from the master
\* account, it is the last call, no member-side ListDetectors is issued, and
\* AddMember returns the listing error or the invitation-not-found error.
C33_DetectorLookupAfterScan ==
    svc = "GuardDuty" =>
        /\ \A k \in MemberListings :
            /\ k - 1 \in CallsOf("ListInvitations")
            /\ calls[k - 1].out.err = NoErr
            /\ Matching(calls[k - 1].out.Invitations) # {}
        /\ \A i \in CallsOf("ListInvitations") :
            (calls[i].out.err # NoErr \/ Matching(calls[i].out.Invitations) = {}) =>
                /\ pc = "done"
                /\ Len(calls) = i
                /\ MemberListings = {}
                /\ err = IF calls[i].out.err # NoErr
                         THEN InvitationListingError(calls[i].out.err)
                         ELSE InvitationNotFoundError

\* GuardDuty: invitations were listed, none of them from the master account,
\* and AddMember ended there.
C33_Witness ==
    /\ svc = "GuardDuty"
    /\ pc = "done"
    /\ Len(calls) = 5
    /\ calls[5].op = "ListInvitations"
    /\ calls[5].out.err = NoErr
    /\ Len(calls[5].out.Invitations) = 2
    /\ Matching(calls[5].out.Invitations) = {}
    /\ err = InvitationNotFoundError

(***************************************************************************)
(* C34                                                                     *)
(***************************************************************************)
\* The method and URL of each recorded CSPM call, in order.
Requests == [i \in DOMAIN calls |-> <<calls[i].op, calls[i].in.url>>]

\* The four call sequences of AddAWSAccount.
ListingOnly == << <<"GET", "/cloud">> >>
CreateSequence == << <<"GET", "/cloud">>, <<"POST", "/cloud/aws/">> >>
FetchSequence == << <<"GET", "/cloud">>, <<"GET", AccountURL>> >>
UpdateSequence == << <<"GET", "/cloud">>, <<"GET", AccountURL>>, <<"PUT", AccountURL>> >>
CallSequences == {ListingOnly, CreateSequence, FetchSequence, UpdateSequence}

\* The positions of the writes.
Writes == {i \in DOMAIN calls : calls[i].op \in {"POST", "PUT"}}

\* C34: the calls of an AddAWSAccount invocation are, when it has returned, one
\* of [GET /cloud], [GET /cloud, POST /cloud/aws/], [GET /cloud, GET
\* /cloud/aws/{id}], [GET /cloud, GET /cloud/aws/{id}, PUT /cloud/aws/{id}], and
\* at every moment before a prefix of one of them; so there is at most one
\* write, never a POST and a PUT together, and a write only after the listing
\* was retrieved and decoded.
C34_FourCallSequences ==
    svc = "Prisma" =>
        /\ pc = "done" => Requests \in CallSequences
        /\ \E s \in CallSequences : Len(Requests) <= Len(s) /\ Requests = SubSeq(s, 1, Len(Requests))
        /\ Cardinality(Writes) <= 1
        /\ ~(Posts # {} /\ Puts # {})
        /\ \A i \in Writes : i > 1 /\ ListingDecoded(calls[1].out)

\* The longest sequence: the listing, the fetch and a PUT, which failed.
C34_Witness ==
    /\ svc = "Prisma"
    /\ pc = "done"
    /\ Requests = UpdateSequence
    /\ calls[3].out.err = MockErr
    /\ err # NoErr

(***************************************************************************)
(* C35                                                                     *)
(***************************************************************************)
\* The previous AddAWSAccount succeeded and this one was given the same name.
SecondRunSameArguments ==
    /\ svc = "Prisma"
    /\ pc # "idle"
    /\ prev.outcome = "synchronized"
    /\ local.name = prev.name

\* The CSPM answers this invocation from the record the previous one left: the
\* listing holds the account, and the fetch, once made, returns that record.
AnswersFromStore ==
    /\ ListingDecoded(calls[1].out)
    /\ ListingHolds(calls[1].out, accountID)
    /\ Len(calls) >= 2 =>
        /\ calls[2].out.err = NoErr
        /\ calls[2].out.body = prev.stored

\* C35: after a successful AddAWSAccount, whether it created the account
\* (with an empty name too), updated it or found it up to date, a second
\* AddAWSAccount with the same arguments against a CSPM that holds the record
\* it was sent issues no POST and no PUT, and returns nil after the fetch.
C35_SecondRunWritesNothing ==
    (SecondRunSameArguments /\ AnswersFromStore) =>
        /\ Writes = {}
        /\ Len(calls) <= 2
        /\ IF Len(calls) = 1
           THEN pc = "Prisma_updateExistingAWSAccount"
           ELSE pc = "done" /\ err = NoErr

\* The account was created with an empty name, and the second invocation, also
\* with an empty name, found the stored record up to date.
C35_Witness ==
    /\ SecondRunSameArguments
    /\ AnswersFromStore
    /\ prev.created
    /\ prev.name = ""
    /\ UnmarshalAccountInfo(prev.stored).val.name = accountID
    /\ Len(calls) = 2
    /\ pc = "done"

(***************************************************************************)
(* C36                                                                     *)
(***************************************************************************)
\* The positions of the fetches that were decoded to a record that is not
\* enabled.
FetchedDisabled ==
    {i \in AccountFetches :
        ListingDecoded(calls[i].out) /\ ~FetchedRecord(calls[i].out).enabled}

\* C36: in AddAWSAccount the desired record has enabled = true and the account
\* ID of the invocation; when the fetched record has enabled = false the next
\* call is a PUT; and the body of every POST and PUT has enabled = true and
\* the account ID of the invocation, which is also the ID in the path of a PUT.
C36_EnabledAndAccountID ==
    (svc = "Prisma" /\ pc # "idle") =>
        /\ local.newAcc.enabled
        /\ local.newAcc.accountId = accountID
        /\ \A i \in FetchedDisabled :
            IF Len(calls) = i THEN pc = "Prisma_PUT" ELSE calls[i + 1].op = "PUT"
        /\ \A i \in Writes :
            /\ SentRecord(calls[i]).enabled
            /\ SentRecord(calls[i]).accountId = accountID
            /\ calls[i].op = "PUT" => calls[i].in.url = "/cloud/aws/" \o accountID

\* The fetched record differs from the desired one in the enabled flag only,
\* and was updated.
C36_Witness ==
    /\ svc = "Prisma"
    /\ pc = "done"
    /\ FetchedDisabled = {2}
    /\ Puts = {3}
    /\ SentRecord(calls[3]) = [FetchedRecord(calls[2].out) EXCEPT !.enabled = TRUE]
    /\ err = NoErr

(***************************************************************************)
(* C37                                                                     *)
(***************************************************************************)
\* The invocation returned an error.
FailedInvocation(x) == x.err # NoErr

\* The name of a service in the messages of main.
ServiceName(unit) ==
    IF unit = "GuardDuty" THEN "GuardDuty"
    ELSE IF unit = "SecurityHub" THEN "Security Hub"
    ELSE "Detective"

\* The message main puts in front of the error of a failed unit: a fixed one
\* for the CSPM and for the master account ID, one that names the service and
\* the region for AddMember.
UnitMessage(x) ==
    IF x.unit = "Prisma" THEN "problem adding account to Prisma"
    ELSE IF x.unit = "GetAccountID" THEN AbortMessage
    ELSE "problem adding member account to AWS " \o ServiceName(x.unit) \o " in " \o x.region

\* The failed invocations, in order.
FailedUnits == SelectSeq(invoked, FailedInvocation)

\* C37: at every moment, and so at the end of the run, the aggregate holds
\* exactly one entry for each unit that failed so far and none for a unit that
\* succeeded, in the order of the failures: the error of the unit behind the
\* message of its kind, which for an AddMember names the service and the
\* region; no unit is invoked twice, so no two entries are of the same unit.
C37_OneEntryPerFailedUnit ==
    /\ Len(result) = Len(FailedUnits)
    /\ \A i \in DOMAIN result :
        result[i] = <<UnitMessage(FailedUnits[i])>> \o FailedUnits[i].err
    /\ \A i, j \in DOMAIN invoked :
        (invoked[i].unit = invoked[j].unit /\ invoked[i].region = invoked[j].region) => i = j

\* The run ended with three entries, for the CSPM and for two AddMember units
\* of different regions, while another unit had succeeded.
C37_Witness ==
    /\ mpc = "exited"
    /\ exitCode = 3
    /\ Len(result) = 3
    /\ FailedUnits[1].unit = "Prisma"
    /\ FailedUnits[2].region # FailedUnits[3].region
    /\ \E i \in AddMemberInvocations : invoked[i].err = NoErr

(***************************************************************************)
(* C38                                                                     *)
(***************************************************************************)
\* A step of an invocation that is in progress: a remote call has returned and
\* the code that follows it runs.
ConnectorStep == pc \notin {"idle", "done"} /\ Next

\* A step of main.
MainStep == svc = "none" /\ NextMain

\* The program seen at either level: one connector invocation going through
\* its calls, or main going through its units.
NextProgram ==
    \/ mpc = "Parse" /\ ConnectorStep
    \/ mpc = "Parse" /\ pc = "idle" /\ Next
    \/ MainStep

\* The program is single-threaded and every remote call returns: an invocation
\* in progress takes its next step, and so does main.
SpecTerminates ==
    Init /\ [][NextProgram]_vars /\ WF_vars(ConnectorStep) /\ WF_vars(MainStep)

\* The largest number of remote calls of one invocation.
MaxCalls ==
    IF svc = "GuardDuty" THEN 7
    ELSE IF svc = "Prisma" THEN 3
    ELSE 5

InProgress == pc \notin {"idle", "done"}
MainStarted == mpc # "Parse"
MainExited == mpc = "exited" /\ exitCode \in {0, 1, 3}

\* An iteration of the loop of main takes one region from those not yet
\* visited.
VisitsOneRegion ==
    (mpc = "Region" /\ todo # {}) =>
        /\ todo' \subseteq todo
        /\ Cardinality(todo') = Cardinality(todo) - 1

\* C38: every run terminates when each remote call returns.  An invocation of
\* AddMember issues at most 7 (GuardDuty), 5 (Security Hub) or 5 (Detective)
\* remote calls and AddAWSAccount at most 3, and an invocation in progress
\* reaches its return; every iteration of main's loop takes one region from
\* those left, and main, once started, reaches an exit: code 0, or a non-zero
\* code.
C38_EveryRunTerminates ==
    /\ [](svc # "none" => Len(calls) <= MaxCalls)
    /\ InProgress ~> (pc = "done")
    /\ [][VisitsOneRegion]_vars
    /\ MainStarted ~> MainExited

\* main visited every region, every unit succeeded, and main exited with 0.
C38_Witness ==
    /\ mpc = "exited"
    /\ exitCode = 0
    /\ todo = {}
    /\ \A r \in Regions : InvocationsOf("Detective", r) # {}
    /\ EveryUnitSucceeded

(***************************************************************************)
(* C39                                                                     *)
(***************************************************************************)
\* The invitations listed hold one from the master account, and the first of
\* these carries no token.
FirstMatchingHasNoToken(out) ==
    /\ out.err = NoErr
    /\ Matching(out.Invitations) # {}
    /\ InvitationToken(out.Invitations[FirstMatching(out.Invitations)]) = Nil

\* C39: in each reconciler, when the first listed invitation from the master
\* account carries no token (nil GraphArn in Detective, nil InvitationId in
\* GuardDuty and Security Hub), AddMember returns the invitation-not-found
\* error with ListInvitations as its last call and no AcceptInvitation,
\* whatever the later invitations carry.
C39_FirstMatchEndsScan ==
    svc \in Reconcilers =>
        \A i \in CallsOf("ListInvitations") :
            FirstMatchingHasNoToken(calls[i].out) =>
                /\ pc = "done"
                /\ Len(calls) = i
                /\ err = InvitationNotFoundError
                /\ CallsOf("AcceptInvitation") = {}

\* Detective: two invitations from the master account, the first without
\* GraphArn and the second with one; AddMember ended with invitation-not-found.
C39_Witness ==
    /\ svc = "Detective"
    /\ pc = "done"
    /\ Len(calls) = 4
    /\ FirstMatchingHasNoToken(calls[4].out)
    /\ Matching(calls[4].out.Invitations) = {1, 2}
    /\ calls[4].out.Invitations[2].GraphArn = "graph_a"
    /\ err = InvitationNotFoundError
====
